---------------------------- MODULE Spec2Model ----------------------------
(***************************************************************************)
(* A model of `meter`: the TTL response cache kept in one file per request *)
(* signature (src/src/io/cache.rs), the invocation that consults it        *)
(* (src/src/main.rs), and the usage aggregation pipeline                    *)
(* (src/src/calculation/unified.rs, src/src/router.rs).                     *)
(*                                                                         *)
(* Spec         several invocations (OS processes) of one request          *)
(*              signature race on its cache file; every file-system call   *)
(*              is one step.                                               *)
(* PricingSpec  find_price applied to one usage entry.                     *)
(* RouterSpec   does_the_thing applied to a list of usage buckets.         *)
(***************************************************************************)
EXTENDS Integers, Sequences, FiniteSets

VARIABLES
    clock,            \* wall clock / file-system time, in seconds
    ticks,            \* how often the clock has advanced
    file,             \* the cache file of the signature: exists, content, mtime
    pc,               \* per process: the call of main() it is about to make
    system_now,       \* per process: main.rs `system_now`, captured at start
    ttl_minutes,      \* per process: main.rs `ttl_minutes` (--ttl-minutes)
    output_message,   \* per process: main.rs `output_message`
    cache_result,     \* per process: outcome of try_retrieve_cache
    fetches,          \* per process: number of upstream fetches performed
    aggregated,       \* per process: the aggregation ran
    computed,         \* per process: the rendering ran, after the aggregation
    wrote,            \* per process: its try_write_cache touched the file
    stdout,           \* per process: Some(text printed), or None
    exit_status,      \* per process: "running", "ok" or the failing stage
    usage_entry,      \* the usage entry handed to find_price
    found_price,      \* what find_price returned for it
    cli,              \* router: ctx.cli (command, unformatted)
    unified_usages,   \* router: the buckets given to does_the_thing
    primitives,       \* router: what its make_primitives returned
    routed,           \* router: what does_the_thing returned
    env,              \* signature: the API keys of the environment
    argv,             \* signature: per invocation, its command line
    args_signature,   \* signature: per invocation, Some(signature) or None
    report,           \* render: the UsageReport that is rendered
    render_args,      \* render: no_format and with_symbol
    rendered,         \* render: what render returned, or that it panicked
    loader,           \* load_providers: the keys and the --provider values
    loaded,           \* load_providers: what it returned
    fetch_locals,     \* fetch: has_more, page_number, next_page, usages
    fetch_pc,         \* fetch: where in the loop it is
    fetch_log,        \* fetch: the waits, requests and responses so far
    fetched           \* fetch: what it returned

\* The state of the racing invocations and of their cache file.
cache_vars == <<clock, ticks, file, pc, system_now, ttl_minutes,
                output_message, cache_result, fetches, aggregated,
                computed, wrote, stdout, exit_status>>

\* The state of the pricing resolver.
resolver_vars == <<usage_entry, found_price>>

\* The state of the router.
router_vars == <<cli, unified_usages, primitives, routed>>

\* The state of the signing of command lines.
signature_vars == <<env, argv, args_signature>>

\* The state of the rendering of a report.
render_vars == <<report, render_args, rendered>>

\* The state of the loading of the providers.
loader_vars == <<loader, loaded>>

\* The state of the paginated fetch.
fetch_vars == <<fetch_locals, fetch_pc, fetch_log, fetched>>

\* Everything but the racing invocations.
pipeline_vars ==
    <<resolver_vars, router_vars, signature_vars, render_vars, loader_vars,
      fetch_vars>>

vars == <<cache_vars, pipeline_vars>>

---------------------------------------------------------------------------
(* Bounds of the model.                                                    *)

\* cli.rs 138: --ttl-minutes defaults to 1; 0 is the least value it accepts.
DefaultTtlMinutes == 1

\* How many times the clock advances in one behaviour.
MaxTicks == 3

\* The racing invocations.
Procs == {"p1", "p2"}

\* jiff's `ttl.minutes()`: a minute is 60 seconds.
SecondsPerMinute == 60

TTLs == 0 .. DefaultTtlMinutes

\* The clock advances by one second, or by one second less than the default
\* TTL, so that both sides of an expiry instant are reached.
TickSteps == {1, DefaultTtlMinutes * SecondsPerMinute - 1}

\* Rendered reports, as character sequences of different lengths; <<>> is the
\* empty text (a grouped report over no usage renders as no rows).
Texts == { <<>>, <<"a">>, <<"b", "c">> }

\* Rust's Option: None, or Some(x).
None == <<>>
Some(x) == <<x>>

---------------------------------------------------------------------------
(* The cache file and src/src/io/cache.rs.                                 *)

AbsentFile == [exists |-> FALSE, content |-> <<>>, mtime |-> 0]

\* Variant: the expiry instant itself still counts as fresh.
is_cache_expired_after(file_mtime, now, ttl) ==
    LET expiration_time == file_mtime + ttl * SecondsPerMinute
    IN  expiration_time < now

\* is_cache_expired, given the mtime that fs::metadata returned.
is_cache_expired(file_mtime, now, ttl) ==
    LET expiration_time == file_mtime + ttl * SecondsPerMinute
    IN  expiration_time <= now

\* Variant: the liveness check is dropped, every store writes.
is_cache_alive_unchecked(file_mtime, now, ttl) == FALSE

\* Variant: an existing file is never replaced.
is_cache_alive_forever(file_mtime, now, ttl) == TRUE

\* try_write_cache line 36-37, once the file is known to exist.
is_cache_alive(file_mtime, now, ttl) == ~ is_cache_expired(file_mtime, now, ttl)

\* File::create inside fs::write: the file is created or truncated.
FsCreate(f, t) == [exists |-> TRUE, content |-> <<>>, mtime |-> t]

\* write_all inside fs::write: the bytes go to offset 0 of this writer's own
\* descriptor; bytes another writer put beyond them in the meantime stay.
FsWriteAll(f, body, t) ==
    [exists  |-> TRUE,
     content |-> body \o SubSeq(f.content, Len(body) + 1, Len(f.content)),
     mtime   |-> t]

\* try_retrieve_cache when nothing interleaves and no call fails: the
\* Option<String> inside its Ok.
try_retrieve_cache(f, ttl, now) ==
    IF ~ f.exists THEN None
    ELSE IF is_cache_expired(f.mtime, now, ttl) THEN None
    ELSE Some(f.content)

\* try_write_cache when nothing interleaves and no call fails: the file after.
try_write_cache(f, body, ttl, now, t) ==
    IF f.exists /\ is_cache_alive(f.mtime, now, ttl) THEN f
    ELSE FsWriteAll(FsCreate(f, t), body, t)

---------------------------------------------------------------------------
(* Strings, Option and Result.  A string that is matched by prefix is the  *)
(* sequence of its characters.                                              *)

\* str::starts_with.
starts_with(full, prefix) ==
    /\ Len(prefix) <= Len(full)
    /\ SubSeq(full, 1, Len(prefix)) = prefix

\* Option::unwrap_or.
unwrap_or(option, default) == IF option = None THEN default ELSE option[1]

\* Rust's Result.
Ok(v) == [tag |-> "Ok", value |-> v]
Err(e) == [tag |-> "Err", value |-> e]

\* Nothing has been returned yet.
Pending == [tag |-> "Pending", value |-> <<>>]

\* error.rs 68-71: Error::PricingNotFound { model, context_window }.
PricingNotFound(m, c) ==
    [kind |-> "PricingNotFound", model |-> m, context_window |-> c]

\* "Unknown", the placeholder of unified.rs 50-51 for a model name.
Unknown == <<"U", "n", "k", "n", "o", "w", "n">>

---------------------------------------------------------------------------
(* src/src/config/pricing_table.rs.  Multipliers are in tenths of a dollar *)
(* per million tokens (22.5 is 225).                                        *)

claude_ == <<"c", "l", "a", "u", "d", "e", "-">>
claude_haiku_4_5 == claude_ \o <<"h", "a", "i", "k", "u", "-", "4", "-", "5">>
claude_sonnet_4 == claude_ \o <<"s", "o", "n", "n", "e", "t", "-", "4">>
claude_sonnet_4_5 == claude_sonnet_4 \o <<"-", "5">>
claude_opus_4_5 == claude_ \o <<"o", "p", "u", "s", "-", "4", "-", "5">>

PricingTable(name, window, input, output) ==
    [base_model_name |-> name, context_window |-> window,
     input_multiplier |-> input, output_multiplier |-> output]

PRICING ==
    << PricingTable(claude_haiku_4_5,  "0-200k",  10,  50),
       PricingTable(claude_sonnet_4_5, "0-200k",  30, 150),
       PricingTable(claude_sonnet_4_5, "200k-1M", 60, 225),
       PricingTable(claude_sonnet_4,   "0-200k",  30, 150),
       PricingTable(claude_sonnet_4,   "200k-1M", 60, 225),
       PricingTable(claude_opus_4_5,   "0-200k",  50, 250) >>

---------------------------------------------------------------------------
(* The pricing resolver, src/src/calculation/unified.rs 38-84.             *)

\* Variant: a row prices an entry only if the entry's context window, when
\* it has one, is the row's.
is_priced_by_window(table_entry, result_entry) ==
    /\ result_entry.model # None
    /\ starts_with(result_entry.model[1], table_entry.base_model_name)
    /\ \/ result_entry.context_window = None
       \/ result_entry.context_window[1] = table_entry.context_window

\* unified.rs 42-47, the closure given to find.
is_priced_by(table_entry, result_entry) ==
    /\ result_entry.model # None
    /\ starts_with(result_entry.model[1], table_entry.base_model_name)

\* Iterator::find over the table from index i on: Some(index) of the first
\* row the closure accepts, or None.  A row is referred to by its index, as
\* the code refers to it by reference.
RECURSIVE iter_find(_, _, _)
iter_find(table, i, result_entry) ==
    IF i > Len(table) THEN None
    ELSE IF is_priced_by(table[i], result_entry) THEN Some(i)
    ELSE iter_find(table, i + 1, result_entry)

\* Variant: the last matching row is taken instead of the first.
RECURSIVE iter_rfind(_, _, _)
iter_rfind(table, i, result_entry) ==
    IF i < 1 THEN None
    ELSE IF is_priced_by(table[i], result_entry) THEN Some(i)
    ELSE iter_rfind(table, i - 1, result_entry)

\* Variant of find_price_in on iter_rfind.
find_price_in_last(table, result_entry) ==
    LET pricing_data == iter_rfind(table, Len(table), result_entry)
    IN  IF pricing_data # None THEN Ok(pricing_data[1])
        ELSE Err(PricingNotFound(unwrap_or(result_entry.model, Unknown),
                                 unwrap_or(result_entry.context_window, "Unknown")))

\* Variant: a missing row is reported with the placeholders, whatever the
\* entry carried.
find_price_in_anonymous(table, result_entry) ==
    LET pricing_data == iter_find(table, 1, result_entry)
    IN  IF pricing_data # None THEN Ok(pricing_data[1])
        ELSE Err(PricingNotFound(Unknown, "Unknown"))

\* find_price over a given table: Ok(index of the row) or Err(PricingNotFound).
find_price_in(table, result_entry) ==
    LET context_window == result_entry.context_window
        pricing_data == iter_find(table, 1, result_entry)
    IN  IF pricing_data # None THEN Ok(pricing_data[1])
        ELSE LET reported_model_name == unwrap_or(result_entry.model, Unknown)
                 reported_context_window == unwrap_or(context_window, "Unknown")
             IN  Err(PricingNotFound(reported_model_name,
                                     reported_context_window))

\* find_price: the table is the global PRICING.
find_price(result_entry) == find_price_in(PRICING, result_entry)

\* Variant: entries without a price are left out instead of failing.
RECURSIVE try_into_base_model_pairs_skipping(_)
try_into_base_model_pairs_skipping(results) ==
    IF results = <<>> THEN Ok(<<>>)
    ELSE LET entry == Head(results)
             pricing == find_price(entry)
             rest == try_into_base_model_pairs_skipping(Tail(results))
         IN  IF pricing.tag = "Err" THEN rest
             ELSE Ok(<< <<PRICING[pricing.value].base_model_name, entry>> >>
                       \o rest.value)

\* try_into_base_model_pairs: (base model name, entry) for every entry in
\* order, or the error of the first entry that has no price.
RECURSIVE try_into_base_model_pairs(_)
try_into_base_model_pairs(results) ==
    IF results = <<>> THEN Ok(<<>>)
    ELSE LET entry == Head(results)
             pricing == find_price(entry)
         IN  IF pricing.tag = "Err" THEN pricing
             ELSE LET key == PRICING[pricing.value].base_model_name
                      rest == try_into_base_model_pairs(Tail(results))
                  IN  IF rest.tag = "Err" THEN rest
                      ELSE Ok(<< <<key, entry>> >> \o rest.value)

---------------------------------------------------------------------------
(* The aggregation pipeline, src/src/calculation/unified.rs 94-236, and    *)
(* the router, src/src/router.rs.  A HashMap is a function on its keys;    *)
(* the order in which the code iterates over one is an input.  Money is    *)
(* kept exact, in units of 10^-7 dollar (tokens times tenths of a dollar   *)
(* per million).                                                            *)

\* cli.rs 218-221: enum Provider.
Providers == {"anthropic", "openai"}

\* unified_dtos.rs 24-55: struct UnifiedUsageEntry.
UnifiedUsageEntry(uncached, cache_read, output, m, window) ==
    [uncached_input_tokens |-> uncached,
     cache_read_input_tokens |-> cache_read,
     output_tokens |-> output,
     model |-> m,
     context_window |-> window]

\* unified_dtos.rs 5-17: struct UnifiedBucketByTime; start and end are
\* dropped by the aggregation and are left out.
UnifiedBucketByTime(p, rs) == [provider |-> p, results |-> rs]

\* UnifiedUsageEntryCollapsed::default().
UnifiedUsageEntryCollapsed_default ==
    [uncached_input_tokens |-> 0, cache_read_input_tokens |-> 0,
     output_tokens |-> 0, model |-> <<>>]

\* usage_report.rs 9-18: enum UsageReport.
Token(n) == [variant |-> "Token", value |-> n]
Money(n) == [variant |-> "Money", value |-> n]
Map(m) == [variant |-> "Map", value |-> m]
Raw(json) == [variant |-> "Raw", value |-> json]

\* usage_report.rs 153-174: From<HashMap<String, f64>> and <String, u64>.
from_cost_map(m) == Map([k \in DOMAIN m |-> Money(m[k])])
from_token_map(m) == Map([k \in DOMAIN m |-> Token(m[k])])

\* The providers that occur in a list of buckets.
ProvidersOf(buckets) == {buckets[i].provider : i \in DOMAIN buckets}

\* The results of one provider's buckets, joined in bucket order.
RECURSIVE joined_vectors(_, _)
joined_vectors(buckets, provider) ==
    IF buckets = <<>> THEN <<>>
    ELSE (IF Head(buckets).provider = provider
             THEN Head(buckets).results ELSE <<>>)
         \o joined_vectors(Tail(buckets), provider)

\* collapse_by_providers.
collapse_by_providers(buckets) ==
    [provider \in ProvidersOf(buckets) |-> joined_vectors(buckets, provider)]

\* Variant: the counters of an entry replace the collapsed ones, as its
\* model does, instead of being added.
RECURSIVE fold_collapsed_replacing(_, _, _)
fold_collapsed_replacing(pairs, key, collapsed) ==
    IF pairs = <<>> THEN collapsed
    ELSE LET entry == Head(pairs)[2]
         IN  fold_collapsed_replacing(Tail(pairs), key,
                IF Head(pairs)[1] # key THEN collapsed
                ELSE [uncached_input_tokens |-> entry.uncached_input_tokens,
                      cache_read_input_tokens |-> entry.cache_read_input_tokens,
                      output_tokens |-> entry.output_tokens,
                      model |-> unwrap_or(entry.model, Unknown)])

\* The closure of the grouping fold in make_primitives, applied to the
\* pairs of one key in order.
RECURSIVE fold_collapsed(_, _, _)
fold_collapsed(pairs, key, collapsed) ==
    IF pairs = <<>> THEN collapsed
    ELSE LET entry == Head(pairs)[2]
         IN  fold_collapsed(Tail(pairs), key,
                IF Head(pairs)[1] # key THEN collapsed
                ELSE [uncached_input_tokens |->
                          collapsed.uncached_input_tokens
                            + entry.uncached_input_tokens,
                      cache_read_input_tokens |->
                          collapsed.cache_read_input_tokens
                            + entry.cache_read_input_tokens,
                      output_tokens |->
                          collapsed.output_tokens + entry.output_tokens,
                      model |-> unwrap_or(entry.model, Unknown)])

\* into_grouping_map().fold(default, closure): one collapsed entry per key.
collapsed_usage_by_model(pairs) ==
    [key \in {pairs[i][1] : i \in DOMAIN pairs} |->
        fold_collapsed(pairs, key, UnifiedUsageEntryCollapsed_default)]

\* HashMap::insert.
insert(map, key, value) ==
    [k \in DOMAIN map \cup {key} |-> IF k = key THEN value ELSE map[k]]

\* Variant of make_primitives_from on try_into_base_model_pairs_skipping.
RECURSIVE make_primitives_from_priced(_, _, _)
make_primitives_from_priced(usage, order, providers_map) ==
    IF order = <<>> THEN Ok(providers_map)
    ELSE LET provider == Head(order)
             usage_entries_by_model ==
                 try_into_base_model_pairs_skipping(usage[provider])
         IN  make_primitives_from_priced(usage, Tail(order),
                 insert(providers_map, provider,
                        collapsed_usage_by_model(usage_entries_by_model.value)))

\* The try_fold of make_primitives over the providers in iteration `order`:
\* it stops at the first provider whose entries cannot all be priced.
RECURSIVE make_primitives_from(_, _, _)
make_primitives_from(usage, order, providers_map) ==
    IF order = <<>> THEN Ok(providers_map)
    ELSE LET provider == Head(order)
             usage_entries_by_model ==
                 try_into_base_model_pairs(usage[provider])
         IN  IF usage_entries_by_model.tag = "Err"
                THEN usage_entries_by_model
                ELSE make_primitives_from(usage, Tail(order),
                        insert(providers_map, provider,
                               collapsed_usage_by_model(
                                   usage_entries_by_model.value)))

\* make_primitives.
make_primitives(buckets, order) ==
    make_primitives_from(collapse_by_providers(buckets), order, <<>>)

\* Iterator::sum over the values of a map.
RECURSIVE sum_values(_)
sum_values(some_map) ==
    IF DOMAIN some_map = {} THEN 0
    ELSE LET k == CHOOSE k \in DOMAIN some_map : TRUE
         IN  some_map[k]
               + sum_values([j \in DOMAIN some_map \ {k} |-> some_map[j]])

\* The model names that occur under any provider of a primitive.
ModelsOf(primitive) == UNION {DOMAIN primitive[p] : p \in DOMAIN primitive}

\* The providers of a primitive that report a model.
ProvidersWith(primitive, name) ==
    {p \in DOMAIN primitive : name \in DOMAIN primitive[p]}

\* Variant: the per-provider values of a model are not summed, one of them
\* stands for the model.
collapse_tokens_overwriting(primitive) ==
    [name \in ModelsOf(primitive) |->
        LET entry == primitive[CHOOSE p \in ProvidersWith(primitive, name) :
                                  TRUE][name]
        IN  entry.uncached_input_tokens
              + entry.cache_read_input_tokens
              + entry.output_tokens]

\* collapse_tokens.
collapse_tokens(primitive) ==
    [name \in ModelsOf(primitive) |->
        sum_values([p \in ProvidersWith(primitive, name) |->
            LET entry == primitive[p][name]
            IN  entry.uncached_input_tokens
                  + entry.cache_read_input_tokens
                  + entry.output_tokens])]

\* Variant: only one value of the map is taken.
fold_one(some_map) ==
    IF DOMAIN some_map = {} THEN 0
    ELSE some_map[CHOOSE k \in DOMAIN some_map : TRUE]

\* fold.
fold(some_map) == sum_values(some_map)

\* unified.rs 233: a price is per 1,000,000 tokens.
TokensPerMillion == 1000000

\* One dollar in the unit of Money: a token at a tenth of a dollar per
\* million costs one unit.
Dollar == 10 * TokensPerMillion

\* Variant: every started million of tokens is charged in full.
calculate_cost_per_started_million(tokens, price_per_million) ==
    ((tokens + TokensPerMillion - 1) \div TokensPerMillion)
       * TokensPerMillion * price_per_million

\* calculate_cost: tokens / 1,000,000 * price_per_million dollars, which is
\* tokens * price_per_million units when the price is in tenths of a dollar.
calculate_cost(tokens, price_per_million) == tokens * price_per_million

\* unified.rs 189-191: Iterator::find over the table from index i on, with
\* the closure that compares the names for equality: Some(index) of the
\* first row of exactly this name, or None.
RECURSIVE find_by_name(_, _, _)
find_by_name(table, i, base_model_name) ==
    IF i > Len(table) THEN None
    ELSE IF table[i].base_model_name = base_model_name THEN Some(i)
    ELSE find_by_name(table, i + 1, base_model_name)

\* unified.rs 189-192: the row found, unwrapped.  (Of None there is no
\* first element: the unwrap panics.)
pricing_of(base_model_name) ==
    PRICING[find_by_name(PRICING, 1, base_model_name)[1]]

\* collapse_cost.
collapse_cost(primitive) ==
    [name \in ModelsOf(primitive) |->
        sum_values([p \in ProvidersWith(primitive, name) |->
            LET entry == primitive[p][name]
                total_input_tokens == entry.uncached_input_tokens
                                        + entry.cache_read_input_tokens
                total_output_tokens == entry.output_tokens
                input_cost == calculate_cost(total_input_tokens,
                                  pricing_of(name).input_multiplier)
                output_cost == calculate_cost(total_output_tokens,
                                   pricing_of(name).output_multiplier)
            IN  input_cost + output_cost])]

\* serde_json::to_string / to_string_pretty of the buckets.
to_json(unformatted, buckets) == [pretty |-> ~unformatted, data |-> buckets]

\* cli.rs 176-214: Commands, SumArgs, Metric, Grouping.
Sum(metric, group_by) ==
    [kind |-> "Sum", metric |-> metric, group_by |-> group_by]
RawCommand == [kind |-> "Raw", metric |-> "Cost", group_by |-> None]

\* Variant: the command is looked at first, and the raw command dumps the
\* buckets without pricing them.
does_the_thing_raw_first(ctx_cli, usages, order) ==
    LET primitive_form == make_primitives(usages, order)
        args == ctx_cli.command
    IN  IF args.kind = "Raw"
           THEN Ok(Raw(to_json(ctx_cli.unformatted, usages)))
        ELSE IF primitive_form.tag = "Err" THEN primitive_form
        ELSE Ok(
            IF args.metric = "Tokens" /\ args.group_by = Some("Model")
               THEN from_token_map(collapse_tokens(primitive_form.value))
            ELSE IF args.metric = "Tokens"
               THEN Token(fold(collapse_tokens(primitive_form.value)))
            ELSE IF args.group_by = Some("Model")
               THEN from_cost_map(collapse_cost(primitive_form.value))
            ELSE Money(fold(collapse_cost(primitive_form.value))))

\* does_the_thing, with the iteration order of the providers as an input.
does_the_thing(ctx_cli, usages, order) ==
    LET primitive_form == make_primitives(usages, order)
        args == ctx_cli.command
    IN  IF primitive_form.tag = "Err" THEN primitive_form
        ELSE Ok(
            IF args.kind = "Raw"
               THEN Raw(to_json(ctx_cli.unformatted, usages))
            ELSE IF args.metric = "Tokens" /\ args.group_by = Some("Model")
               THEN from_token_map(collapse_tokens(primitive_form.value))
            ELSE IF args.metric = "Tokens"
               THEN Token(fold(collapse_tokens(primitive_form.value)))
            ELSE IF args.group_by = Some("Model")
               THEN from_cost_map(collapse_cost(primitive_form.value))
            ELSE Money(fold(collapse_cost(primitive_form.value))))

---------------------------------------------------------------------------
(* Inputs of the pricing resolver and of the router.                       *)

\* The largest token count of an entry given to the resolver.
MaxTokens == 1

\* The most entries in all the buckets of a list given to the router.
MaxEntries == 3

\* The most buckets in such a list: enough for one bucket of each provider,
\* or for several buckets of one.
MaxBuckets == Cardinality(Providers)

\* A date suffix, as the API appends to a model name.
dated == <<"-", "2", "5">>

gpt_unknown == <<"g", "p", "t", "-", "u", "n", "k", "n", "o", "w", "n">>
claude_opus_4_1 == claude_ \o <<"o", "p", "u", "s", "-", "4", "-", "1">>
claude_sonnet == claude_ \o <<"s", "o", "n", "n", "e", "t">>

\* Reported model names: every name of the table, names no row prefixes
\* (one of them a proper prefix of table names), and the empty name; each
\* bare and dated.
ReportedModels ==
    {None} \cup
    {Some(name \o suffix) :
        name \in {PRICING[i].base_model_name : i \in DOMAIN PRICING}
                   \cup {gpt_unknown, claude_opus_4_1, claude_sonnet, <<>>},
        suffix \in {<<>>, dated}}

ContextWindows == {None, Some("0-200k"), Some("200k-1M")}

ResultEntries ==
    {UnifiedUsageEntry(u, c, o, m, w) :
        u \in 0 .. MaxTokens, c \in 0 .. MaxTokens, o \in 0 .. MaxTokens,
        m \in ReportedModels, w \in ContextWindows}

\* The entries the router's buckets are filled from: two names of one table
\* row, a name of another row, and two entries without a price.
UsagePool ==
    { UnifiedUsageEntry(1, 0, 2, Some(claude_haiku_4_5 \o dated), Some("0-200k")),
      UnifiedUsageEntry(0, 1, 1, Some(claude_haiku_4_5), None),
      UnifiedUsageEntry(2, 1, 0, Some(claude_sonnet_4_5 \o dated), Some("200k-1M")),
      UnifiedUsageEntry(1, 1, 1, Some(gpt_unknown), None),
      UnifiedUsageEntry(1, 0, 0, None, Some("0-200k")) }

\* Lists of at most nb buckets that hold at most ne entries together.
RECURSIVE BucketLists(_, _)
BucketLists(nb, ne) ==
    {<<>>} \cup
    IF nb = 0 THEN {}
    ELSE UNION {
           { <<UnifiedBucketByTime(p, rs)>> \o rest :
                p \in Providers,
                rs \in [1 .. k -> UsagePool],
                rest \in BucketLists(nb - 1, ne - k) } :
           k \in 0 .. ne }

Clis ==
    {[command |-> c, unformatted |-> u] :
        c \in {Sum(metric, group_by) :
                  metric \in {"Cost", "Tokens"},
                  group_by \in {None, Some("Model")}} \cup {RawCommand},
        u \in BOOLEAN}

\* The orders in which a HashMap may yield a set of keys.
Orders(keys) ==
    {order \in [1 .. Cardinality(keys) -> keys] :
        \A i, j \in DOMAIN order : order[i] = order[j] => i = j}

---------------------------------------------------------------------------
(* The cache signature: clap's parse of the command line into Cli          *)
(* (src/src/cli.rs 116-173) and create_args_signature                      *)
(* (src/src/main.rs 243-265).                                              *)

\* The most global flags on one command line.
MaxFlags == 3

\* The invocations whose signatures are compared.
Invocations == {1, 2}

Flag(name, value) == [name |-> name, value |-> value]

\* The global flags of cli.rs 128-172 as they occur on a command line;
\* --provider may be repeated, every occurrence appends a value.
GlobalFlags ==
    { Flag("no_animate", ""), Flag("ttl_minutes", "0"),
      Flag("unformatted", ""), Flag("since", "7d"),
      Flag("provider", "anthropic"), Flag("provider", "openai") }

\* Command lines: a subcommand and at most n different global flags in any
\* order.
CommandLines(n) ==
    {[command |-> c, flags |-> fs] :
        c \in {Sum("Cost", None), Sum("Tokens", Some("Model"))},
        fs \in UNION {{f \in [1 .. k -> GlobalFlags] :
                          \A i, j \in 1 .. k : f[i] = f[j] => i = j} :
                      k \in 0 .. n}}

\* The environments: ANTHROPIC_ADMIN_API_KEY is set, OPENAI_ADMIN_API_KEY
\* is set or not.
Environments ==
    {[anthropic_admin_api_key |-> Some("sk-ant"), openai_admin_api_key |-> k] :
        k \in {None, Some("sk-oai")}}

\* clap::value_parser!(i64) on the values --ttl-minutes is given here.
parse_i64(text) == CASE text = "0" -> 0 [] text = "1" -> 1

\* The values of the occurrences of one option, in command-line order.
RECURSIVE values_of(_, _)
values_of(flags, name) ==
    IF flags = <<>> THEN <<>>
    ELSE (IF Head(flags).name = name THEN <<Head(flags).value>> ELSE <<>>)
         \o values_of(Tail(flags), name)

\* Cli::parse (cli.rs 116-173): flags by presence, options by their value
\* or their default, --provider as the list of its values in the order
\* given, the keys from the environment.
Cli_parse(environment, line) ==
    [command |-> line.command,
     no_animate |-> values_of(line.flags, "no_animate") # <<>>,
     unformatted |-> values_of(line.flags, "unformatted") # <<>>,
     ttl_minutes |-> IF values_of(line.flags, "ttl_minutes") = <<>>
                        THEN DefaultTtlMinutes
                        ELSE parse_i64(values_of(line.flags, "ttl_minutes")[1]),
     since |-> IF values_of(line.flags, "since") = <<>> THEN "0d"
               ELSE values_of(line.flags, "since")[1],
     anthropic_admin_api_key |-> environment.anthropic_admin_api_key,
     openai_admin_api_key |-> environment.openai_admin_api_key,
     provider |-> IF values_of(line.flags, "provider") = <<>> THEN None
                  ELSE Some(values_of(line.flags, "provider"))]

\* serde_json::to_string(cli): the fields of Cli in declaration order,
\* without the two marked #[serde(skip)] (no_animate, ttl_minutes).  The
\* JSON text is determined by this record.
to_string(parsed) ==
    [command |-> parsed.command,
     unformatted |-> parsed.unformatted,
     since |-> parsed.since,
     anthropic_admin_api_key |-> parsed.anthropic_admin_api_key,
     openai_admin_api_key |-> parsed.openai_admin_api_key,
     provider |-> parsed.provider]

\* generate_cache_filename: the XxHash64 of the text in hexadecimal.  The
\* hash is a function of the text; that two different texts could collide
\* is not modelled.
generate_cache_filename(serialized_args) == <<"xxh64", serialized_args>>

\* create_args_signature.
create_args_signature(parsed) == generate_cache_filename(to_string(parsed))

---------------------------------------------------------------------------
(* Cli::load_providers, src/src/cli.rs 44-111.                              *)

\* The most values of --provider on one command line.
MaxSelected == 3

\* error.rs 41 and 53.
AnthropicKeyNotFound == "AnthropicKeyNotFound"
OpenaiKeyNotFound == "OpenaiKeyNotFound"

\* cli.rs 226-230: struct ProviderSpec.
ProviderSpec(provider, key, missing_key_error) ==
    [provider |-> provider, key |-> key,
     missing_key_error |-> missing_key_error]

\* provider_blueprints.
provider_blueprints(self) ==
    << ProviderSpec("anthropic", self.anthropic_admin_api_key,
                    AnthropicKeyNotFound),
       ProviderSpec("openai", self.openai_admin_api_key, OpenaiKeyNotFound) >>

\* Vec::contains.
contains(vec, x) == \E i \in DOMAIN vec : vec[i] = x

\* Itertools::unique: the first occurrence of every element, in order.
RECURSIVE unique(_)
unique(vec) ==
    IF vec = <<>> THEN <<>>
    ELSE LET init == unique(SubSeq(vec, 1, Len(vec) - 1))
         IN  IF contains(init, vec[Len(vec)]) THEN init
             ELSE Append(init, vec[Len(vec)])

\* user_selected_providers.
user_selected_providers(self) ==
    IF self.provider = None THEN None ELSE Some(unique(self.provider[1]))

\* cli.rs 57-69: the map and the collect into a Result: the pairs of the
\* blueprints in order, or the error of the first blueprint without a key.
RECURSIVE collect_pairs(_)
collect_pairs(specs) ==
    IF specs = <<>> THEN Ok(<<>>)
    ELSE IF Head(specs).key = None THEN Err(Head(specs).missing_key_error)
    ELSE LET rest == collect_pairs(Tail(specs))
         IN  IF rest.tag = "Err" THEN rest
             ELSE Ok(<<<<Head(specs).provider, Head(specs).key[1]>>>>
                     \o rest.value)

\* cli.rs 76-82: the filter_map of the automatic mode.
RECURSIVE available_provider(_)
available_provider(specs) ==
    IF specs = <<>> THEN <<>>
    ELSE (IF Head(specs).key = None THEN <<>>
          ELSE <<<<Head(specs).provider, Head(specs).key[1]>>>>)
         \o available_provider(Tail(specs))

\* Variant: the strict mode skips a selected provider without a key.
load_providers_skipping(self) ==
    LET selected == user_selected_providers(self)
    IN  IF selected # None
        THEN Ok(available_provider(
                 SelectSeq(provider_blueprints(self),
                           LAMBDA spec : contains(selected[1], spec.provider))))
        ELSE Ok(available_provider(provider_blueprints(self)))

\* load_providers.
load_providers(self) ==
    LET selected == user_selected_providers(self)
    IN  IF selected # None
        THEN collect_pairs(
                 SelectSeq(provider_blueprints(self),
                           LAMBDA spec : contains(selected[1], spec.provider)))
        ELSE Ok(available_provider(provider_blueprints(self)))

\* The values of --provider: absent, or one to n values, repeats allowed.
Selections(n) ==
    {None} \cup {Some(vec) : vec \in UNION {[1 .. k -> Providers] : k \in 1 .. n}}

\* The Cli fields load_providers reads.
LoaderClis(n) ==
    [anthropic_admin_api_key : {None, Some("sk-ant")},
     openai_admin_api_key : {None, Some("sk-oai")},
     provider : Selections(n)]

\* No providers are being loaded.
LoaderIdle ==
    /\ loader = [anthropic_admin_api_key |-> None,
                 openai_admin_api_key |-> None, provider |-> None]
    /\ loaded = Pending

---------------------------------------------------------------------------
(* The paginated fetch, src/src/io/claude_client/client.rs 14-110.          *)

\* The most pages the API serves for one report.
MaxPages == 3

\* client.rs 12.
GAP_TIME_BETWEEN_FETCH_IN_SEC == 5

\* What fetch does and gets, in order: a wait of some seconds, a request
\* with its page token, the body of a response.
Event(kind, page, secs, data, more) ==
    [kind |-> kind, page |-> page, secs |-> secs, data |-> data,
     has_more |-> more]

\* client.rs 106-110: wait.
wait == Event("wait", None, GAP_TIME_BETWEEN_FETCH_IN_SEC, <<>>, FALSE)

\* client.rs 71-96: the request inner_fetch sends, with the page parameter
\* when there is a page token.
request(next_page) == Event("request", next_page, 0, <<>>, FALSE)

\* dtos MessagesUsageReport: the body of a response.
MessagesUsageReport(data, more, next_page) ==
    Event("response", next_page, 0, data, more)

\* The buckets one page can hold, and the page tokens.
PageData == {<<>>, <<"b1">>, <<"b2", "b3">>}
PageTokens == {None, Some("t1"), Some("t2")}

\* The bodies the API may answer the n-th request with; the last page the
\* API serves has no successor.
Bodies(n) ==
    {MessagesUsageReport(data, more, next_page) :
        data \in PageData,
        more \in IF n < MaxPages THEN BOOLEAN ELSE {FALSE},
        next_page \in PageTokens}

\* client.rs 26-33: the locals of fetch before the loop.
FetchLocals ==
    [has_more |-> TRUE, page_number |-> 1, next_page |-> None, usages |-> <<>>]

\* No fetch is running.
FetchIdle ==
    /\ fetch_locals = FetchLocals
    /\ fetch_pc = "idle"
    /\ fetch_log = <<>>
    /\ fetched = Pending

\* The resolver has not been called.
ResolverIdle ==
    /\ usage_entry = UnifiedUsageEntry(0, 0, 0, None, None)
    /\ found_price = Pending

\* The router has not been called.
RouterIdle ==
    /\ cli = [command |-> Sum("Cost", None), unformatted |-> FALSE]
    /\ unified_usages = <<>>
    /\ primitives = Pending
    /\ routed = Pending

\* No command line is being signed.
SignatureIdle ==
    /\ env = [anthropic_admin_api_key |-> None, openai_admin_api_key |-> None]
    /\ argv = [i \in Invocations |-> [command |-> RawCommand, flags |-> <<>>]]
    /\ args_signature = [i \in Invocations |-> None]

---------------------------------------------------------------------------
(* UsageReport::render, src/src/calculation/usage_report.rs 20-134.  Texts *)
(* are sequences of characters.                                             *)

\* The most entries of a Map that is rendered.
MaxRows == 2

\* A panic, with its message.
Panic(message) == [tag |-> "Panic", value |-> message]

\* The decimal digits of a natural number.
RECURSIVE digits(_)
digits(n) ==
    IF n < 10 THEN <<<<"0", "1", "2", "3", "4", "5", "6", "7", "8", "9">>[n + 1]>>
    ELSE digits(n \div 10) \o digits(n % 10)

\* The last `width` decimal digits of n, with leading zeros.
RECURSIVE padded(_, _)
padded(n, width) ==
    IF width = 0 THEN <<>>
    ELSE padded(n \div 10, width - 1) \o digits(n % 10)

\* A text without its trailing zeros.
RECURSIVE trimmed(_)
trimmed(text) ==
    IF text # <<>> /\ text[Len(text)] = "0"
       THEN trimmed(SubSeq(text, 1, Len(text) - 1))
       ELSE text

\* f64::to_string of an amount: the whole dollars, and the fraction down to
\* its last digit that is not zero.  (The digits an inexact f64 would add
\* are not modelled.)
f64_to_string(value) ==
    LET fraction == trimmed(padded(value % Dollar, 7))
    IN  IF fraction = <<>> THEN digits(value \div Dollar)
        ELSE digits(value \div Dollar) \o <<".">> \o fraction

\* format!("{:.2}") of an amount: rounded to cents.  (An amount exactly
\* halfway between two cents is rounded by its binary representation; the
\* amounts rendered here are not halfway.)
format_2(value) ==
    LET cents == (value + Dollar \div 200) \div (Dollar \div 100)
    IN  digits(cents \div 100) \o <<".">> \o padded(cents % 100, 2)

\* render_token.
render_token(value) == digits(value)

\* Variant: the symbol is written whatever with_symbol says.
render_money_with_symbol(value, no_format, with_symbol) ==
    IF no_format THEN f64_to_string(value)
    ELSE <<"$">> \o format_2(value)

\* render_money.
render_money(value, no_format, with_symbol) ==
    IF no_format THEN f64_to_string(value)
    ELSE LET symbol == IF unwrap_or(with_symbol, TRUE) THEN <<"$">> ELSE <<>>
         IN  symbol \o format_2(value)

\* render of a Token or Money report, as format_csv calls it for the values
\* of a Map; any other value reaches the unreachable! of render.
render_value(value, no_format, with_symbol) ==
    IF value.variant = "Token" THEN Ok(render_token(value.value))
    ELSE IF value.variant = "Money"
       THEN Ok(render_money(value.value, no_format, with_symbol))
    ELSE Panic("UsageReport::render: Unhandled variant.")

\* usage_report.rs 58-83: the two columns of the row of one entry.
csv_row(key, value, no_format) ==
    IF value.variant = "Money"
    THEN LET cost_with_symbol ==
                 render_value(value, no_format, Some(~ no_format)).value
             cost_without_symbol ==
                 render_value(value, no_format, Some(FALSE)).value
             display_column ==
                 key \o <<" ", "(">> \o cost_with_symbol \o <<")">>
         IN  <<display_column, cost_without_symbol>>
    ELSE <<key, render_value(value, no_format, None).value>>

\* csv::Writer::serialize of a row without headers: the fields separated by
\* a comma and ended by a newline.  No field written here holds a comma, a
\* quote or a newline, so none is quoted.
serialize(row) == row[1] \o <<",">> \o row[2] \o <<"\n">>

\* format_csv of the entries of a Map, visited in iteration `order`.
RECURSIVE format_csv(_, _, _)
format_csv(hp, order, no_format) ==
    IF order = <<>> THEN <<>>
    ELSE serialize(csv_row(Head(order), hp[Head(order)], no_format))
         \o format_csv(hp, Tail(order), no_format)

\* render, with the iteration order of a Map as an input.
render(self, order, no_format, with_symbol) ==
    IF self.variant = "Token" THEN Ok(render_token(self.value))
    ELSE IF self.variant = "Money"
       THEN Ok(render_money(self.value, no_format, with_symbol))
    ELSE IF self.variant = "Map"
       THEN Ok(format_csv(self.value, order, no_format))
    ELSE Panic("UsageReport::render: Unhandled variant.")

\* The amounts that are rendered, in units of 10^-7 dollar: nothing, less
\* than half a cent, more than half a cent, dollars with a fraction, whole
\* dollars.
Amounts == {0, 110, 60000, 12345678, 6 * Dollar}

TokenCounts == {0, 7, 1234}

\* The keys of a Map are names of the pricing table.
MapKeys == {PRICING[i].base_model_name : i \in DOMAIN PRICING}

\* The reports that are rendered: scalars, raw texts, and Maps of at most n
\* entries, all Money or all Token.
ScalarReports ==
    {Token(t) : t \in TokenCounts} \cup {Money(a) : a \in Amounts}

RawReports == {Raw(text) : text \in {<<>>, <<"[", "]">>}}

MapReports(n) ==
    UNION {{Map([k \in ks |-> Money(f[k])]) : f \in [ks -> Amounts]}
             \cup {Map([k \in ks |-> Token(f[k])]) : f \in [ks -> TokenCounts]} :
           ks \in {ks \in SUBSET MapKeys : Cardinality(ks) <= n}}

\* Nothing is being rendered.
RenderIdle ==
    /\ report = Token(0)
    /\ render_args = [no_format |-> FALSE, with_symbol |-> None]
    /\ rendered = Pending

\* Nothing but the racing invocations is in use.
PipelineIdle ==
    /\ ResolverIdle /\ RouterIdle /\ SignatureIdle /\ RenderIdle
    /\ LoaderIdle /\ FetchIdle

---------------------------------------------------------------------------
(* main(): one invocation, src/src/main.rs 107-222.                        *)

\* main.rs 215: the cache is written only for a non-empty output.
AfterOutput(text) == IF text # <<>> THEN "w_exists" ELSE "print"

\* An error return of main(): nothing further runs in this process.
Fail(p, stage) ==
    /\ pc' = [pc EXCEPT ![p] = "failed"]
    /\ exit_status' = [exit_status EXCEPT ![p] = stage]

\* main.rs 116-122: the clock is read once, the TTL comes from the CLI.
Start(p) ==
    /\ pc[p] = "start"
    /\ \E ttl \in TTLs : ttl_minutes' = [ttl_minutes EXCEPT ![p] = ttl]
    /\ system_now' = [system_now EXCEPT ![p] = clock]
    /\ pc' = [pc EXCEPT ![p] = "r_exists"]
    /\ UNCHANGED <<clock, ticks, file, output_message, cache_result, fetches,
                   aggregated, computed, wrote, stdout, exit_status>>
    /\ UNCHANGED pipeline_vars

\* Variant: a cache that fails to load is treated as a miss.
RetrieveErr_fallback(p) ==
    /\ cache_result' = [cache_result EXCEPT ![p] = "err"]
    /\ pc' = [pc EXCEPT ![p] = "fetch"]
    /\ UNCHANGED <<fetches, output_message, exit_status>>

\* main.rs 144-148: Err(e) of try_retrieve_cache aborts the invocation.
RetrieveErr(p) ==
    /\ cache_result' = [cache_result EXCEPT ![p] = "err"]
    /\ Fail(p, "cache_load")
    /\ UNCHANGED <<fetches, output_message>>

\* Variant: a miss waits for a refresh that another invocation has under
\* way and looks the entry up again, instead of fetching itself.
RetrieveNone_coalescing(p, why) ==
    /\ cache_result' = [cache_result EXCEPT ![p] = why]
    /\ pc' = [pc EXCEPT ![p] =
                IF \E q \in Procs \ {p} :
                      pc[q] \in {"fetch", "compute", "render", "w_exists",
                                 "w_meta", "w_create", "w_data"}
                THEN "r_exists" ELSE "fetch"]
    /\ UNCHANGED <<fetches, output_message, exit_status>>

\* main.rs 152: Ok(None), the refresh path is taken; `why` records whether
\* cache.rs 13 ("absent") or cache.rs 17 ("expired") returned it.
RetrieveNone(p, why) ==
    /\ cache_result' = [cache_result EXCEPT ![p] = why]
    /\ pc' = [pc EXCEPT ![p] = "fetch"]
    /\ UNCHANGED <<fetches, output_message, exit_status>>

\* Variant: a hit is used as the output but the refresh runs all the same.
RetrieveSome_refresh(p, cached_string) ==
    /\ cache_result' = [cache_result EXCEPT ![p] = "hit"]
    /\ output_message' = [output_message EXCEPT ![p] = cached_string]
    /\ pc' = [pc EXCEPT ![p] = "fetch"]
    /\ UNCHANGED <<fetches, exit_status>>

\* main.rs 127: Ok(Some(cached_string)) becomes the output.
RetrieveSome(p, cached_string) ==
    /\ cache_result' = [cache_result EXCEPT ![p] = "hit"]
    /\ output_message' = [output_message EXCEPT ![p] = cached_string]
    /\ pc' = [pc EXCEPT ![p] = AfterOutput(cached_string)]
    /\ UNCHANGED <<fetches, exit_status>>

\* cache.rs 12-14: try_exists.
RetrieveExists(p) ==
    /\ pc[p] = "r_exists"
    /\ \/ RetrieveErr(p)
       \/ /\ ~ file.exists
          /\ RetrieveNone(p, "absent")
       \/ /\ file.exists
          /\ pc' = [pc EXCEPT ![p] = "r_meta"]
          /\ UNCHANGED <<cache_result, fetches, output_message, exit_status>>
    /\ UNCHANGED <<clock, ticks, file, system_now, ttl_minutes, aggregated, computed,
                   wrote, stdout>>
    /\ UNCHANGED pipeline_vars

\* cache.rs 16-18: is_cache_expired on the mtime fs::metadata returns.
RetrieveMeta(p) ==
    /\ pc[p] = "r_meta"
    /\ \/ RetrieveErr(p)
       \/ /\ is_cache_expired(file.mtime, system_now[p], ttl_minutes[p])
          /\ RetrieveNone(p, "expired")
       \/ /\ ~ is_cache_expired(file.mtime, system_now[p], ttl_minutes[p])
          /\ pc' = [pc EXCEPT ![p] = "r_read"]
          /\ UNCHANGED <<cache_result, fetches, output_message, exit_status>>
    /\ UNCHANGED <<clock, ticks, file, system_now, ttl_minutes, aggregated, computed,
                   wrote, stdout>>
    /\ UNCHANGED pipeline_vars

\* cache.rs 20-22: fs::read_to_string.
RetrieveRead(p) ==
    /\ pc[p] = "r_read"
    /\ \/ RetrieveErr(p)
       \/ RetrieveSome(p, file.content)
    /\ UNCHANGED <<clock, ticks, file, system_now, ttl_minutes, aggregated, computed,
                   wrote, stdout>>
    /\ UNCHANGED pipeline_vars

\* Variant: a failed fetch is noted and the invocation goes on with no
\* usages.
Fetch_defaulting(p) ==
    /\ pc[p] = "fetch"
    /\ \/ /\ Fail(p, "since")
          /\ UNCHANGED fetches
       \/ /\ fetches' = [fetches EXCEPT ![p] = @ + 1]
          /\ pc' = [pc EXCEPT ![p] = "compute"]
          /\ \/ UNCHANGED exit_status
             \/ exit_status' = [exit_status EXCEPT ![p] = "fetch"]
    /\ UNCHANGED <<clock, ticks, file, system_now, ttl_minutes,
                   output_message, cache_result, aggregated, computed, wrote, stdout>>
    /\ UNCHANGED pipeline_vars

\* main.rs 159-169: the time window is derived from --since (an Err is
\* returned before anything is requested), then the upstream fetch, Ok or
\* Err.
Fetch(p) ==
    /\ pc[p] = "fetch"
    /\ \/ /\ Fail(p, "since")
          /\ UNCHANGED fetches
       \/ /\ fetches' = [fetches EXCEPT ![p] = @ + 1]
          /\ \/ /\ pc' = [pc EXCEPT ![p] = "compute"]
                /\ UNCHANGED exit_status
             \/ Fail(p, "fetch")
    /\ UNCHANGED <<clock, ticks, file, system_now, ttl_minutes,
                   output_message, cache_result, aggregated, computed, wrote, stdout>>
    /\ UNCHANGED pipeline_vars

\* Variant: a failure of the aggregation is noted and the rendering runs
\* all the same.
Aggregate_unchecked(p) ==
    /\ pc[p] = "compute"
    /\ aggregated' = [aggregated EXCEPT ![p] = TRUE]
    /\ pc' = [pc EXCEPT ![p] = "render"]
    /\ \/ UNCHANGED exit_status
       \/ exit_status' = [exit_status EXCEPT ![p] = "compute"]
    /\ UNCHANGED <<clock, ticks, file, system_now, ttl_minutes,
                   output_message, cache_result, fetches, computed, wrote,
                   stdout>>
    /\ UNCHANGED pipeline_vars

\* main.rs 171-210, first half: the usages are aggregated (the `?` on the
\* calculation returns its Err).
Aggregate(p) ==
    /\ pc[p] = "compute"
    /\ aggregated' = [aggregated EXCEPT ![p] = TRUE]
    /\ \/ /\ pc' = [pc EXCEPT ![p] = "render"]
          /\ UNCHANGED exit_status
       \/ Fail(p, "compute")
    /\ UNCHANGED <<clock, ticks, file, system_now, ttl_minutes,
                   output_message, cache_result, fetches, computed, wrote,
                   stdout>>
    /\ UNCHANGED pipeline_vars

\* main.rs 171-210, second half: the result is rendered into the output
\* text, or rendering fails.
Compute(p) ==
    /\ pc[p] = "render"
    /\ computed' = [computed EXCEPT ![p] = TRUE]
    /\ \/ \E text \in Texts :
            /\ output_message' = [output_message EXCEPT ![p] = text]
            /\ pc' = [pc EXCEPT ![p] = AfterOutput(text)]
            /\ UNCHANGED exit_status
       \/ /\ Fail(p, "render")
          /\ UNCHANGED output_message
    /\ UNCHANGED <<clock, ticks, file, system_now, ttl_minutes, cache_result,
                   fetches, aggregated, wrote, stdout>>
    /\ UNCHANGED pipeline_vars

\* main.rs 216 `?`: Err of try_write_cache is returned before line 219.
WriteErr(p) == Fail(p, "cache_write")

\* cache.rs 32-37: create_dir_all, then try_exists.
WriteExists(p) ==
    /\ pc[p] = "w_exists"
    /\ \/ WriteErr(p)
       \/ /\ pc' = [pc EXCEPT ![p] = IF file.exists THEN "w_meta" ELSE "w_create"]
          /\ UNCHANGED exit_status
    /\ UNCHANGED <<clock, ticks, file, system_now, ttl_minutes,
                   output_message, cache_result, fetches, aggregated, computed, wrote,
                   stdout>>
    /\ UNCHANGED pipeline_vars

\* cache.rs 37-44: the file is left alone while it is alive.
WriteMeta(p) ==
    /\ pc[p] = "w_meta"
    /\ \/ WriteErr(p)
       \/ /\ pc' = [pc EXCEPT ![p] =
                      IF is_cache_alive(file.mtime, system_now[p], ttl_minutes[p])
                      THEN "print" ELSE "w_create"]
          /\ UNCHANGED exit_status
    /\ UNCHANGED <<clock, ticks, file, system_now, ttl_minutes,
                   output_message, cache_result, fetches, aggregated, computed, wrote,
                   stdout>>
    /\ UNCHANGED pipeline_vars

\* cache.rs 46, first half of fs::write: create or truncate.
WriteCreate(p) ==
    /\ pc[p] = "w_create"
    /\ \/ /\ WriteErr(p)
          /\ UNCHANGED <<file, wrote>>
       \/ /\ file' = FsCreate(file, clock)
          /\ wrote' = [wrote EXCEPT ![p] = TRUE]
          /\ pc' = [pc EXCEPT ![p] = "w_data"]
          /\ UNCHANGED exit_status
    /\ UNCHANGED <<clock, ticks, system_now, ttl_minutes, output_message,
                   cache_result, fetches, aggregated, computed, stdout>>
    /\ UNCHANGED pipeline_vars

\* cache.rs 46, second half of fs::write: the body is written.
WriteData(p) ==
    /\ pc[p] = "w_data"
    /\ \/ /\ WriteErr(p)
          /\ UNCHANGED file
       \/ /\ file' = FsWriteAll(file, output_message[p], clock)
          /\ pc' = [pc EXCEPT ![p] = "print"]
          /\ UNCHANGED exit_status
    /\ UNCHANGED <<clock, ticks, system_now, ttl_minutes, output_message,
                   cache_result, fetches, aggregated, computed, wrote, stdout>>
    /\ UNCHANGED pipeline_vars

\* main.rs 219-221: the output is printed and main returns Ok.
StopSpinWithMessage(p) ==
    /\ pc[p] = "print"
    /\ stdout' = [stdout EXCEPT ![p] = Some(output_message[p])]
    /\ pc' = [pc EXCEPT ![p] = "done"]
    /\ exit_status' = [exit_status EXCEPT ![p] = "ok"]
    /\ UNCHANGED <<clock, ticks, file, system_now, ttl_minutes,
                   output_message, cache_result, fetches, aggregated, computed, wrote>>
    /\ UNCHANGED pipeline_vars

\* Time passes.
Tick ==
    /\ ticks < MaxTicks
    /\ \E d \in TickSteps : clock' = clock + d
    /\ ticks' = ticks + 1
    /\ UNCHANGED <<file, pc, system_now, ttl_minutes, output_message,
                   cache_result, fetches, aggregated, computed, wrote, stdout, exit_status>>
    /\ UNCHANGED pipeline_vars

\* No invocation has started.
Launch ==
    /\ clock = 0
    /\ ticks = 0
    /\ pc = [p \in Procs |-> "start"]
    /\ system_now = [p \in Procs |-> 0]
    /\ ttl_minutes = [p \in Procs |-> 0]
    /\ output_message = [p \in Procs |-> <<>>]
    /\ cache_result = [p \in Procs |-> "pending"]
    /\ fetches = [p \in Procs |-> 0]
    /\ aggregated = [p \in Procs |-> FALSE]
    /\ computed = [p \in Procs |-> FALSE]
    /\ wrote = [p \in Procs |-> FALSE]
    /\ stdout = [p \in Procs |-> None]
    /\ exit_status = [p \in Procs |-> "running"]

\* The file is absent, or was left by an earlier invocation at time 0.
Init ==
    /\ Launch
    /\ file \in {AbsentFile} \cup
                {[exists |-> TRUE, content |-> t, mtime |-> 0] : t \in Texts \ {<<>>}}
    /\ PipelineIdle

Next ==
    \/ Tick
    \/ \E p \in Procs :
          \/ Start(p)
          \/ RetrieveExists(p)
          \/ RetrieveMeta(p)
          \/ RetrieveRead(p)
          \/ Fetch(p)
          \/ Aggregate(p)
          \/ Compute(p)
          \/ WriteExists(p)
          \/ WriteMeta(p)
          \/ WriteCreate(p)
          \/ WriteData(p)
          \/ StopSpinWithMessage(p)

Spec == Init /\ [][Next]_vars

---------------------------------------------------------------------------
(* PricingSpec: find_price applied to one usage entry.                     *)

PricingInit ==
    /\ Launch
    /\ file = AbsentFile
    /\ usage_entry \in ResultEntries
    /\ found_price = Pending
    /\ RouterIdle
    /\ SignatureIdle
    /\ RenderIdle
    /\ LoaderIdle
    /\ FetchIdle

FindPrice ==
    /\ found_price = Pending
    /\ found_price' = find_price(usage_entry)
    /\ UNCHANGED <<usage_entry, router_vars, signature_vars, render_vars,
                   loader_vars, fetch_vars>>
    /\ UNCHANGED cache_vars

PricingNext == FindPrice

PricingSpec == PricingInit /\ [][PricingNext]_vars

---------------------------------------------------------------------------
(* RouterSpec: does_the_thing applied to a list of buckets.                *)

RouterInit ==
    /\ Launch
    /\ file = AbsentFile
    /\ ResolverIdle
    /\ SignatureIdle
    /\ RenderIdle
    /\ LoaderIdle
    /\ FetchIdle
    /\ cli \in Clis
    /\ unified_usages \in BucketLists(MaxBuckets, MaxEntries)
    /\ primitives = Pending
    /\ routed = Pending

Route ==
    /\ routed = Pending
    /\ \E order \in Orders(ProvidersOf(unified_usages)) :
          /\ primitives' = make_primitives(unified_usages, order)
          /\ routed' = does_the_thing(cli, unified_usages, order)
    /\ UNCHANGED <<resolver_vars, cli, unified_usages, signature_vars,
                   render_vars,
                   loader_vars, fetch_vars>>
    /\ UNCHANGED cache_vars

RouterNext == Route

RouterSpec == RouterInit /\ [][RouterNext]_vars

---------------------------------------------------------------------------
(* SignatureSpec: two command lines are parsed and signed in one           *)
(* environment.                                                             *)

SignatureInit ==
    /\ Launch
    /\ file = AbsentFile
    /\ ResolverIdle
    /\ RouterIdle
    /\ RenderIdle
    /\ LoaderIdle
    /\ FetchIdle
    /\ env \in Environments
    /\ argv \in [Invocations -> CommandLines(MaxFlags)]
    /\ args_signature = [i \in Invocations |-> None]

\* main.rs 110-114: the invocation parses its command line and derives the
\* signature of its cache file.
CreateArgsSignature(i) ==
    /\ args_signature[i] = None
    /\ args_signature' =
          [args_signature EXCEPT
              ![i] = Some(create_args_signature(Cli_parse(env, argv[i])))]
    /\ UNCHANGED <<env, argv, resolver_vars, router_vars, render_vars,
                   loader_vars, fetch_vars>>
    /\ UNCHANGED cache_vars

SignatureNext == \E i \in Invocations : CreateArgsSignature(i)

SignatureSpec == SignatureInit /\ [][SignatureNext]_vars

---------------------------------------------------------------------------
(* RenderSpec: render applied to a report.                                  *)

RenderInit ==
    /\ Launch
    /\ file = AbsentFile
    /\ ResolverIdle
    /\ RouterIdle
    /\ SignatureIdle
    /\ LoaderIdle
    /\ FetchIdle
    /\ \/ report \in ScalarReports
       \/ report \in RawReports
       \/ report \in MapReports(MaxRows)
    /\ render_args \in [no_format : BOOLEAN,
                        with_symbol : {None, Some(TRUE), Some(FALSE)}]
    /\ rendered = Pending

Render ==
    /\ rendered = Pending
    /\ \E order \in Orders(IF report.variant = "Map"
                             THEN DOMAIN report.value ELSE {}) :
          rendered' = render(report, order, render_args.no_format,
                             render_args.with_symbol)
    /\ UNCHANGED <<report, render_args, resolver_vars, router_vars,
                   signature_vars, loader_vars, fetch_vars>>
    /\ UNCHANGED cache_vars

RenderNext == Render

RenderSpec == RenderInit /\ [][RenderNext]_vars

---------------------------------------------------------------------------
(* LoaderSpec: load_providers applied to a parsed command line.             *)

LoaderInit ==
    /\ Launch
    /\ file = AbsentFile
    /\ ResolverIdle
    /\ RouterIdle
    /\ SignatureIdle
    /\ RenderIdle
    /\ FetchIdle
    /\ loader \in LoaderClis(MaxSelected)
    /\ loaded = Pending

LoadProviders ==
    /\ loaded = Pending
    /\ loaded' = load_providers(loader)
    /\ UNCHANGED <<loader, resolver_vars, router_vars, signature_vars,
                   render_vars, fetch_vars>>
    /\ UNCHANGED cache_vars

LoaderNext == LoadProviders

LoaderSpec == LoaderInit /\ [][LoaderNext]_vars

---------------------------------------------------------------------------
(* FetchSpec: fetch pages through the usage report of the API.              *)

FetchInit ==
    /\ Launch
    /\ file = AbsentFile
    /\ ResolverIdle
    /\ RouterIdle
    /\ SignatureIdle
    /\ RenderIdle
    /\ LoaderIdle
    /\ fetch_locals = FetchLocals
    /\ fetch_pc = "while"
    /\ fetch_log = <<>>
    /\ fetched = Pending

\* Variant: no gap is kept between two requests.
While_without_wait ==
    /\ fetch_pc = "while"
    /\ IF fetch_locals.has_more
       THEN /\ fetch_pc' = "inner_fetch"
            /\ UNCHANGED <<fetch_log, fetched>>
       ELSE /\ fetch_pc' = "returned"
            /\ fetched' = Ok(fetch_locals.usages)
            /\ UNCHANGED fetch_log
    /\ UNCHANGED <<fetch_locals, resolver_vars, router_vars, signature_vars,
                   render_vars, loader_vars>>
    /\ UNCHANGED cache_vars

\* client.rs 35-43 and 62: the loop condition; in the loop, the wait before
\* every request but the first; after the loop, Ok(usages).
While ==
    /\ fetch_pc = "while"
    /\ IF fetch_locals.has_more
       THEN /\ fetch_pc' = "inner_fetch"
            /\ fetch_log' = IF fetch_locals.page_number > 1
                               THEN Append(fetch_log, wait) ELSE fetch_log
            /\ UNCHANGED fetched
       ELSE /\ fetch_pc' = "returned"
            /\ fetched' = Ok(fetch_locals.usages)
            /\ UNCHANGED fetch_log
    /\ UNCHANGED <<fetch_locals, resolver_vars, router_vars, signature_vars,
                   render_vars, loader_vars>>
    /\ UNCHANGED cache_vars

\* client.rs 45-59: the request is sent with the page token held; either
\* it fails and `?` returns the error, or its body is received, its data
\* appended, and has_more and next_page taken from it.
InnerFetch ==
    /\ fetch_pc = "inner_fetch"
    /\ \/ /\ fetch_log' = Append(fetch_log, request(fetch_locals.next_page))
          /\ fetched' = Err("ureq")
          /\ fetch_pc' = "returned"
          /\ UNCHANGED fetch_locals
       \/ \E body \in Bodies(fetch_locals.page_number) :
             /\ fetch_log' = fetch_log
                               \o <<request(fetch_locals.next_page), body>>
             /\ fetch_locals' =
                   [has_more |-> body.has_more,
                    page_number |-> fetch_locals.page_number + 1,
                    next_page |-> body.page,
                    usages |-> fetch_locals.usages \o body.data]
             /\ fetch_pc' = "while"
             /\ UNCHANGED fetched
    /\ UNCHANGED <<resolver_vars, router_vars, signature_vars, render_vars,
                   loader_vars>>
    /\ UNCHANGED cache_vars

FetchNext == While \/ InnerFetch

FetchSpec == FetchInit /\ [][FetchNext]_vars

---------------------------------------------------------------------------
(* Claims about the cache and the invocation, checked under Spec.          *)

\* p takes the step it is at `from` to make, and the call does not fail.
Steps(p, from) == pc[p] = from /\ pc'[p] \notin {from, "failed"}

\* The instant at which an entry of modification time t ends under ttl.
ExpiresAt(t, ttl) == t + ttl * SecondsPerMinute

\* C1 as stated: the lookup finds an entry of modification time T fresh
\* exactly when T + M minutes >= now (fresh at T + M minutes itself).
C1_FreshThroughExpiryInstant ==
    [][\A p \in Procs :
          Steps(p, "r_meta") =>
             ((pc'[p] = "r_read") <=>
                 (ExpiresAt(file.mtime, ttl_minutes[p]) >= system_now[p]))]_vars

\* C1 amended: the lookup finds an entry of modification time T fresh
\* exactly when T + M minutes > now; at now = T + M minutes the entry is
\* already stale and the lookup returns absent, one second earlier it is
\* fresh and the lookup goes on to read the text.
C1_FreshBeforeExpiryInstant ==
    [][\A p \in Procs :
          Steps(p, "r_meta") =>
             /\ (pc'[p] = "r_read") <=>
                   (ExpiresAt(file.mtime, ttl_minutes[p]) > system_now[p])
             /\ (pc'[p] = "fetch" /\ cache_result'[p] = "expired") <=>
                   (ExpiresAt(file.mtime, ttl_minutes[p]) <= system_now[p])
             /\ try_retrieve_cache(file, ttl_minutes[p],
                                   ExpiresAt(file.mtime, ttl_minutes[p])) = None
             /\ ttl_minutes[p] > 0 =>
                   try_retrieve_cache(file, ttl_minutes[p],
                        ExpiresAt(file.mtime, ttl_minutes[p]) - 1)
                      = Some(file.content)]_vars

\* A lookup made at exactly T + M minutes (M = 1) has returned absent.
C1_Witness ==
    \E p \in Procs :
        /\ cache_result[p] = "expired"
        /\ ttl_minutes[p] = 1
        /\ file.exists
        /\ system_now[p] = ExpiresAt(file.mtime, 1)

\* C2: a store that finds the file existing and fresh for its ttl and now
\* (modification time + ttl still ahead of now) returns without creating,
\* truncating or writing the file, whatever text it was given: content and
\* modification time stay as they were.
C2_StoreLeavesFreshEntry ==
    [][\A p \in Procs :
          ( /\ pc[p] \in {"w_exists", "w_meta"}
            /\ pc'[p] # pc[p]
            /\ file.exists
            /\ ExpiresAt(file.mtime, ttl_minutes[p]) > system_now[p] )
          => /\ file' = file
             /\ pc'[p] \in {"w_meta", "print", "failed"}
             /\ wrote'[p] = wrote[p]
             /\ \A body \in Texts :
                   try_write_cache(file, body, ttl_minutes[p], system_now[p],
                                   clock) = file]_vars

\* A store was given a text other than the cached one, found the entry
\* fresh and returned without having touched the file.
C2_Witness ==
    \E p \in Procs :
        /\ pc[p] = "print"
        /\ cache_result[p] \in {"absent", "expired"}
        /\ output_message[p] # <<>>
        /\ ~ wrote[p]
        /\ file.exists
        /\ file.content # output_message[p]
        /\ ExpiresAt(file.mtime, ttl_minutes[p]) > system_now[p]

\* C3: an invocation whose lookup hit takes the text it read from the file
\* as its output unchanged, prints nothing else, and neither fetches nor
\* aggregates or renders; the only way it can still fail is the store call.
C3_HitServesCachedText ==
    [][\A p \in Procs :
          /\ Steps(p, "r_read") =>
                /\ cache_result'[p] = "hit"
                /\ output_message'[p] = file.content
          /\ cache_result[p] = "hit" =>
                /\ output_message'[p] = output_message[p]
                /\ fetches'[p] = 0
                /\ ~ aggregated'[p]
                /\ ~ computed'[p]
                /\ pc'[p] \notin {"fetch", "compute", "render"}
                /\ stdout'[p] \in {None, Some(output_message[p])}
                /\ pc'[p] = "done" => stdout'[p] = Some(output_message[p])
                /\ pc'[p] = "failed" => exit_status'[p] = "cache_write"]_vars

\* An invocation hit the cache and has printed the cached text.
C3_Witness ==
    \E p \in Procs :
        /\ cache_result[p] = "hit"
        /\ pc[p] = "done"
        /\ stdout[p] = Some(output_message[p])
        /\ output_message[p] # <<>>

\* C4 as stated: once a miss was followed by a successful fetch, aggregation
\* and render and the store has returned, the file holds the rendered
\* output, whatever it is, and a lookup with a TTL above 0 returns it.
C4_EveryOutputIsStored ==
    \A p \in Procs :
        ( /\ cache_result[p] \in {"absent", "expired"}
          /\ computed[p]
          /\ pc[p] = "print" )
        => /\ file.exists
           /\ \A ttl \in TTLs \ {0} :
                 try_retrieve_cache(file, ttl, clock) = Some(output_message[p])

\* C4 amended: after a miss followed by a successful fetch, aggregation
\* and render, an empty output is never stored; a non-empty output goes to
\* the store, which writes it whenever it finds the entry absent or not
\* fresh for this invocation's now and ttl (another invocation may have
\* refreshed it meanwhile, and then the file is left alone); and when no
\* other invocation wrote between this store's truncation and its write, the
\* file then holds exactly that output and an immediately following lookup
\* with a TTL above 0 returns it.
C4_NonEmptyOutputIsStored ==
    [][\A p \in Procs :
          /\ Steps(p, "render") =>
                pc'[p] = (IF output_message'[p] = <<>> THEN "print" ELSE "w_exists")
          /\ ( /\ cache_result[p] \in {"absent", "expired"}
               /\ pc[p] \in {"w_exists", "w_meta"}
               /\ pc'[p] \notin {pc[p], "failed"}
               /\ ~ ( /\ file.exists
                      /\ ExpiresAt(file.mtime, ttl_minutes[p]) > system_now[p] ) )
             => pc'[p] \in {"w_meta", "w_create"}
          /\ (Steps(p, "w_meta")
                /\ ExpiresAt(file.mtime, ttl_minutes[p]) <= system_now[p])
             => pc'[p] = "w_create"
          /\ Steps(p, "w_create") =>
                pc'[p] = "w_data" /\ file'.exists /\ file'.content = <<>>
          /\ (Steps(p, "w_data") /\ file.content = <<>>)
             => /\ file'.content = output_message[p]
                /\ output_message[p] # <<>>
                /\ file'.mtime = clock
                /\ \A ttl \in TTLs \ {0} :
                      try_retrieve_cache(file', ttl, clock') = Some(output_message[p])]_vars

\* An invocation missed on a stale entry, rendered a non-empty output other
\* than the stale text, and its store has replaced the file with it.
C4_Witness ==
    \E p \in Procs :
        /\ cache_result[p] = "expired"
        /\ computed[p]
        /\ pc[p] = "print"
        /\ wrote[p]
        /\ file.content = output_message[p]
        /\ \A ttl \in TTLs \ {0} :
              try_retrieve_cache(file, ttl, clock) = Some(output_message[p])

\* C5 as stated: with ttl_minutes = 0 the lookup returns absent in every
\* reachable state, and the store always goes on to overwrite the file.
C5_TtlZeroNeverHits ==
    [][\A p \in Procs :
          ttl_minutes[p] = 0 =>
             /\ Steps(p, "r_meta") => pc'[p] = "fetch"
             /\ Steps(p, "w_meta") => pc'[p] = "w_create"]_vars

\* C5 amended: with ttl_minutes = 0 every write whose modification time is
\* not later than the now the invocation captured at its start is treated
\* as expired: the lookup returns absent and the store overwrites the file.
\* A file written by another invocation after that instant (modification
\* time > now) is served by the lookup and left alone by the store.
C5_TtlZeroExpiresPriorWrites ==
    [][\A p \in Procs :
          ttl_minutes[p] = 0 =>
             /\ Steps(p, "r_meta") =>
                   (pc'[p] = "fetch") <=> (file.mtime <= system_now[p])
             /\ Steps(p, "w_meta") =>
                   (pc'[p] = "w_create") <=> (file.mtime <= system_now[p])
             /\ file.exists /\ file.mtime <= system_now[p] =>
                   /\ try_retrieve_cache(file, 0, system_now[p]) = None
                   /\ \A body \in Texts \ {<<>>} :
                         try_write_cache(file, body, 0, system_now[p], clock)
                            = [exists |-> TRUE, content |-> body, mtime |-> clock]]_vars

\* With ttl 0 a lookup found an existing entry expired at the very second
\* it was written, and the store has overwritten it.
C5_Witness ==
    \E p \in Procs :
        /\ ttl_minutes[p] = 0
        /\ cache_result[p] = "expired"
        /\ wrote[p]
        /\ pc[p] = "print"
        /\ file.content = output_message[p]
        /\ file.mtime = system_now[p]

\* C6: an invocation whose cache lookup failed (existence check, metadata
\* or content read) has ended with that error: it has fetched nothing,
\* computed nothing, written nothing to the cache and printed nothing.
C6_CacheLoadFailureIsFatal ==
    \A p \in Procs :
        cache_result[p] = "err" =>
            /\ pc[p] = "failed"
            /\ exit_status[p] = "cache_load"
            /\ fetches[p] = 0
            /\ ~ aggregated[p]
            /\ ~ computed[p]
            /\ ~ wrote[p]
            /\ stdout[p] = None

\* A lookup failed on an existing file while the other invocation went on.
C6_Witness ==
    \E p \in Procs :
        /\ cache_result[p] = "err"
        /\ pc[p] = "failed"
        /\ file.exists
        /\ \E q \in Procs \ {p} : fetches[q] = 1

\* C7: an invocation that fetched and rendered and whose cache write then
\* failed has still printed the report it computed.
C7_ReportPrintedWhenStoreFails ==
    \A p \in Procs :
        (computed[p] /\ exit_status[p] = "cache_write")
            => stdout[p] = Some(output_message[p])

\* C12: there is no request coalescing.  Every invocation whose lookup
\* returned absent (no file, or an expired one) goes on to its own upstream
\* fetch whatever the other invocations are doing: it is at the fetch, which
\* it can take, or it has fetched, or it has ended on its own --since
\* argument.  No invocation fetches more than once, and none fetches unless
\* its own lookup returned absent.
C12_NoRequestCoalescing ==
    \A p \in Procs :
        /\ fetches[p] <= 1
        /\ fetches[p] = 1 => cache_result[p] \in {"absent", "expired"}
        /\ cache_result[p] \in {"absent", "expired"}
              => \/ pc[p] = "fetch"
                 \/ fetches[p] = 1
                 \/ exit_status[p] = "since"
        /\ pc[p] = "fetch" => ENABLED Fetch(p)

\* All invocations found the same stale entry before any of them wrote it,
\* and every one of them has fetched.
C12_Witness ==
    /\ \A p \in Procs : cache_result[p] = "expired" /\ fetches[p] = 1
    /\ \A p \in Procs : ~ wrote[p]

\* C13: under every interleaving, the text a lookup reads from the cache
\* file is a complete rendered report as some writer computed it: a
\* non-empty text of Texts, never the empty file a writer has just
\* truncated and never a mix of two writers' texts.
C13_LookupReadsCompleteReport ==
    \A p \in Procs :
        cache_result[p] = "hit" => output_message[p] \in Texts \ {<<>>}

\* The calls of try_write_cache.
StoreSteps == {"w_exists", "w_meta", "w_create", "w_data"}

\* C14: within one invocation the stages run in the order freshness check,
\* fetch, aggregation, rendering, cache write, each only after the one before
\* it has succeeded: nothing is fetched before the lookup has returned
\* absent; nothing is aggregated before the fetch has returned Ok; nothing
\* is rendered before the aggregation has returned Ok; and the store is
\* called only with an output text that exists, rendered by this invocation
\* or read from the cache, and after nothing has failed.
C14_StagesInOrder ==
    \A p \in Procs :
        /\ (pc[p] = "fetch" \/ fetches[p] > 0)
              => cache_result[p] \in {"absent", "expired"}
        /\ (pc[p] = "compute" \/ aggregated[p])
              => /\ fetches[p] = 1
                 /\ exit_status[p] \notin {"since", "fetch"}
        /\ (pc[p] = "render" \/ computed[p])
              => /\ aggregated[p]
                 /\ exit_status[p] # "compute"
        /\ (pc[p] \in StoreSteps \/ wrote[p])
              => /\ output_message[p] # <<>>
                 /\ \/ cache_result[p] = "hit"
                    \/ computed[p] /\ exit_status[p] # "render"
                 /\ exit_status[p] \in {"running", "cache_write", "ok"}

\* An invocation has gone through all five stages.
C14_Witness ==
    \E p \in Procs :
        /\ cache_result[p] = "expired"
        /\ fetches[p] = 1
        /\ aggregated[p]
        /\ computed[p]
        /\ wrote[p]
        /\ pc[p] = "done"

\* The failures of the stages between the lookup and the store: the upstream
\* fetch, the aggregation (bucket conversion and pricing) and the render.
PipelineFailures == {"fetch", "compute", "render"}

\* C22: an invocation in which the fetch, the aggregation or the render has
\* failed has ended with that error: no later stage has run, it has no output
\* text, it has printed nothing and it has not touched the cache file.
C22_NoFailureSwallowed ==
    \A p \in Procs :
        exit_status[p] \in PipelineFailures =>
            /\ pc[p] = "failed"
            /\ exit_status[p] = "fetch" => ~ aggregated[p]
            /\ exit_status[p] = "compute" => ~ computed[p]
            /\ output_message[p] = <<>>
            /\ stdout[p] = None
            /\ ~ wrote[p]

\* The render of one invocation has failed while the cache file holds the
\* report another invocation stored.
C22_Witness ==
    \E p, q \in Procs :
        /\ exit_status[p] = "render"
        /\ wrote[q]
        /\ file.exists
        /\ file.content # <<>>

\* C23: no step of an invocation whose lookup returned cached text changes
\* the content or the modification time of the cache file, and its store
\* call never reaches the write, whatever the other invocations do in
\* between.
C23_HitNeverResetsTtl ==
    [][\A p \in Procs :
          (cache_result[p] = "hit" /\ pc'[p] # pc[p]) =>
              /\ file' = file
              /\ wrote'[p] = FALSE
              /\ pc'[p] \notin {"w_create", "w_data"}]_vars

\* An invocation hit the cache, another one rewrote the file after that,
\* and the first has been through its store call.
C23_Witness ==
    \E p \in Procs :
        /\ cache_result[p] = "hit"
        /\ output_message[p] # <<>>
        /\ pc[p] = "print"
        /\ file.content # output_message[p]
        /\ file.mtime > system_now[p]

\* The lookup of p found no entry it could serve.
Missed(p) == cache_result[p] \in {"absent", "expired"}

\* The store call of q has returned after writing the file.
StoreCompleted(q) == wrote[q] /\ pc[q] \in {"print", "done"}

\* C26 (as stated): a store that finds the file's modification time later
\* than the now its process captured writes nothing, whatever the ttl; and
\* among invocations racing on one stale entry the file keeps the first
\* completed write: once one of them has completed its write, no step of
\* another that missed the entry before that write (its ttl is above 0 and
\* its now not later than the write) changes the file.
C26_FirstCompletedWriteKept ==
    [][\A p \in Procs :
          /\ ( /\ pc[p] \in {"w_exists", "w_meta"}
               /\ file.exists
               /\ file.mtime > system_now[p]
               /\ pc'[p] # pc[p] )
             => /\ pc'[p] \in {"w_meta", "print", "failed"}
                /\ file' = file
          /\ ( /\ Missed(p)
               /\ ttl_minutes[p] > 0
               /\ system_now[p] <= file.mtime
               /\ \E q \in Procs \ {p} : Missed(q) /\ StoreCompleted(q)
               /\ pc'[p] # pc[p] )
             => file' = file]_vars

\* C26 (amended): a store that finds the file's modification time later
\* than the now its process captured writes nothing, whatever the ttl; so
\* does one with a ttl above 0 that finds a file written at or after that
\* now.  A store that found the file absent, or its entry expired, writes
\* without looking again, also over a write another invocation has
\* completed in the meantime.
C26_LaterWriteSkipped ==
    [][\A p \in Procs :
          /\ ( /\ pc[p] \in {"w_exists", "w_meta"}
               /\ file.exists
               /\ \/ file.mtime > system_now[p]
                  \/ file.mtime = system_now[p] /\ ttl_minutes[p] > 0
               /\ pc'[p] # pc[p] )
             => /\ pc'[p] \in {"w_meta", "print", "failed"}
                /\ file' = file
          /\ (pc[p] \in {"w_create", "w_data"} /\ pc'[p] \notin {pc[p], "failed"})
             => /\ file'.mtime = clock
                /\ wrote'[p]
                /\ pc'[p] = "print" =>
                      SubSeq(file'.content, 1, Len(output_message[p]))
                         = output_message[p]]_vars

\* An invocation with ttl 0 missed the entry, refreshed, and its store left
\* alone the file that another invocation had rewritten after its start.
C26_Witness ==
    \E p \in Procs :
        /\ Missed(p)
        /\ computed[p]
        /\ output_message[p] # <<>>
        /\ pc[p] = "print"
        /\ ~ wrote[p]
        /\ ttl_minutes[p] = 0
        /\ file.mtime > system_now[p]
        /\ file.content # output_message[p]

\* C27: when a lookup has returned cached text to a process, the file's
\* modification time plus that process's own ttl_minutes is later than the
\* now that process supplied, at the moment the text is read and from then
\* on; the ttl of the process that wrote the entry plays no part.
C27_ServedTextIsFresh ==
    \A p \in Procs :
        (pc[p] = "r_read" \/ cache_result[p] = "hit") =>
            /\ file.exists
            /\ ExpiresAt(file.mtime, ttl_minutes[p]) > system_now[p]

\* An invocation with ttl 1 was served, after time had passed, the text that
\* an invocation with ttl 0 wrote.
C27_Witness ==
    \E p, q \in Procs :
        /\ cache_result[p] = "hit"
        /\ ttl_minutes[p] = 1
        /\ ttl_minutes[q] = 0
        /\ StoreCompleted(q)
        /\ output_message[p] = output_message[q]
        /\ system_now[p] > file.mtime

\* C28 (as stated): whenever no write is under way, a cache file that an
\* invocation of this system has written holds the non-empty output text of
\* an invocation that fetched, aggregated and rendered successfully; no
\* invocation that failed in those stages, and none with an empty output,
\* has written.
C28_FileHoldsRenderedOutput ==
    /\ \A p \in Procs :
          wrote[p] => /\ computed[p]
                      /\ exit_status[p] \notin PipelineFailures
                      /\ output_message[p] # <<>>
    /\ ( /\ \E p \in Procs : wrote[p]
         /\ \A p \in Procs : pc[p] # "w_data" )
       => /\ file.exists
          /\ file.content # <<>>
          /\ \E p \in Procs :
                /\ wrote[p]
                /\ fetches[p] = 1 /\ aggregated[p] /\ computed[p]
                /\ file.content = output_message[p]

---------------------------------------------------------------------------
(* Claims about the aggregation, checked under RouterSpec, and about the   *)
(* pricing resolver, checked under PricingSpec.                             *)

\* The rows of a table whose name is a prefix of the entry's reported model.
MatchingRules(table, e) ==
    {i \in DOMAIN table :
        /\ e.model # None
        /\ starts_with(e.model[1], table[i].base_model_name)}

\* The least element of a non-empty set of numbers.
Least(S) == CHOOSE i \in S : \A j \in S : i <= j

\* No row of PRICING prefixes the entry's model, or it has no model.
Unpriced(e) == MatchingRules(PRICING, e) = {}

\* The failure that reports an entry: its model and context window as
\* given, each replaced by "Unknown" when absent.
NotFoundFor(e) ==
    PricingNotFound(IF e.model = None THEN Unknown ELSE e.model[1],
                    IF e.context_window = None THEN "Unknown"
                    ELSE e.context_window[1])

\* C8: whenever some entry of some bucket has no price, does_the_thing
\* returns the pricing-not-found failure of an unpriced entry (the first one
\* among the entries of one provider, taken in bucket order) and no report,
\* whichever command, metric and grouping was asked for.
C8_AggregationAllOrNothing ==
    (/\ routed # Pending
     /\ \E i \in DOMAIN unified_usages :
           \E j \in DOMAIN unified_usages[i].results :
              Unpriced(unified_usages[i].results[j]))
    => /\ routed.tag = "Err"
       /\ \E p \in ProvidersOf(unified_usages) :
             LET rs == joined_vectors(unified_usages, p)
             IN  \E j \in DOMAIN rs :
                    /\ Unpriced(rs[j])
                    /\ \A k \in 1 .. j - 1 : ~ Unpriced(rs[k])
                    /\ routed.value = NotFoundFor(rs[j])

\* A token sum over buckets that hold priced entries and a "gpt-unknown"
\* entry has failed naming "gpt-unknown".
C8_Witness ==
    /\ cli.command = Sum("Tokens", None)
    /\ routed.tag = "Err"
    /\ routed.value.model = gpt_unknown
    /\ \E i \in DOMAIN unified_usages :
          \E j \in DOMAIN unified_usages[i].results :
             ~ Unpriced(unified_usages[i].results[j])

\* Some entry given to the router has no price.
SomeUnpriced ==
    \E i \in DOMAIN unified_usages :
       \E j \in DOMAIN unified_usages[i].results :
          Unpriced(unified_usages[i].results[j])

\* C29: for the raw command the router returns a Raw report (the dump of
\* the buckets as given) exactly when every entry has a price; when some
\* entry has none it returns the pricing-not-found failure of such an entry
\* and no report.
C29_RawDependsOnPricing ==
    (routed # Pending /\ cli.command = RawCommand) =>
        IF SomeUnpriced
        THEN /\ routed.tag = "Err"
             /\ \E i \in DOMAIN unified_usages :
                   \E j \in DOMAIN unified_usages[i].results :
                      /\ Unpriced(unified_usages[i].results[j])
                      /\ routed.value = NotFoundFor(unified_usages[i].results[j])
        ELSE routed = Ok(Raw(to_json(cli.unformatted, unified_usages)))

\* The raw command was given buckets that hold a priced entry and a
\* "gpt-unknown" entry, and has failed.
C29_Witness ==
    /\ cli.command = RawCommand
    /\ routed.tag = "Err"
    /\ routed.value.model = gpt_unknown
    /\ \E i \in DOMAIN unified_usages :
          \E j \in DOMAIN unified_usages[i].results :
             ~ Unpriced(unified_usages[i].results[j])

\* The table [a, ab] of the example.
ExampleTable ==
    << PricingTable(<<"a">>, "0-200k", 10, 50),
       PricingTable(<<"a", "b">>, "0-200k", 30, 150) >>

\* C9: when some row's name is a prefix of the reported model, find_price
\* returns the matching row of the smallest index; and over the table
\* [a, ab] the model abc resolves to the row of a.
C9_FirstMatchWins ==
    /\ (found_price # Pending /\ ~ Unpriced(usage_entry))
          => found_price = Ok(Least(MatchingRules(PRICING, usage_entry)))
    /\ find_price_in(ExampleTable,
           UnifiedUsageEntry(0, 0, 0, Some(<<"a", "b", "c">>), None)) = Ok(1)

\* A model was resolved that rows of two different names prefix.
C9_Witness ==
    /\ found_price.tag = "Ok"
    /\ \E i, j \in MatchingRules(PRICING, usage_entry) :
          PRICING[i].base_model_name # PRICING[j].base_model_name

\* The entry looked up, with another context window.
WithWindow(window) == [usage_entry EXCEPT !.context_window = window]

\* C24: the rule an entry resolves to does not depend on its context window:
\* with any other window, or none, the same entry resolves to the same rule
\* (or fails as well); and the rule is never a row that has the name of an
\* earlier row, so the 200k-1M rows are selected for no entry.
C24_WindowDoesNotSelect ==
    found_price # Pending =>
        /\ \A window \in ContextWindows :
              /\ find_price(WithWindow(window)).tag = found_price.tag
              /\ found_price.tag = "Ok"
                    => find_price(WithWindow(window)) = found_price
        /\ found_price.tag = "Ok" =>
              /\ \A i \in 1 .. found_price.value - 1 :
                    PRICING[i].base_model_name
                       # PRICING[found_price.value].base_model_name
              /\ PRICING[found_price.value].context_window # "200k-1M"

\* An entry of the 200k-1M window was resolved, the table has a 200k-1M row
\* of the very name it resolved to, and the rule is another row.
C24_Witness ==
    /\ found_price.tag = "Ok"
    /\ usage_entry.context_window = Some("200k-1M")
    /\ \E j \in DOMAIN PRICING :
          /\ j # found_price.value
          /\ PRICING[j].context_window = "200k-1M"
          /\ PRICING[j].base_model_name
                = PRICING[found_price.value].base_model_name

\* C25: for an entry the resolver prices, the lookup of collapse_cost by
\* the canonical name (the name of the rule the resolver returned) finds a
\* row, and it is the very rule the resolver returned: the unwrap does not
\* panic and the group is priced with the rule its entries resolved to.
C25_ExactLookupAgrees ==
    found_price.tag = "Ok" =>
        LET base_model_name == PRICING[found_price.value].base_model_name
        IN  /\ find_by_name(PRICING, 1, base_model_name) # None
            /\ find_by_name(PRICING, 1, base_model_name) = Some(found_price.value)
            /\ pricing_of(base_model_name) = PRICING[found_price.value]

\* The resolver priced a dated model whose canonical name is the name of two
\* rows and has another row's name as a prefix.
C25_Witness ==
    /\ found_price.tag = "Ok"
    /\ usage_entry.model # Some(PRICING[found_price.value].base_model_name)
    /\ Cardinality({i \in DOMAIN PRICING :
                       PRICING[i].base_model_name
                          = PRICING[found_price.value].base_model_name}) > 1
    /\ Cardinality(MatchingRules(PRICING, usage_entry)) > 2

RECURSIVE TaggedEntries(_)
TaggedEntries(buckets) ==
    IF buckets = <<>> THEN <<>>
    ELSE [j \in 1 .. Len(Head(buckets).results) |->
             [provider |-> Head(buckets).provider,
              entry |-> Head(buckets).results[j]]]
         \o TaggedEntries(Tail(buckets))

\* The canonical model of a priced entry: the name of the first row that
\* prefixes its model.
CanonicalModel(e) ==
    PRICING[Least(MatchingRules(PRICING, e))].base_model_name

\* The entries of the given providers that resolve to a canonical model.
EntriesOf(buckets, providers, name) ==
    SelectSeq(TaggedEntries(buckets),
              LAMBDA t : t.provider \in providers
                           /\ CanonicalModel(t.entry) = name)

\* The sum of a sequence of numbers, and of the values of a function.
RECURSIVE SumSeq(_)
SumSeq(ns) == IF ns = <<>> THEN 0 ELSE Head(ns) + SumSeq(Tail(ns))

RECURSIVE SumOf(_)
SumOf(f) ==
    IF DOMAIN f = {} THEN 0
    ELSE LET x == CHOOSE x \in DOMAIN f : TRUE
         IN  f[x] + SumOf([y \in DOMAIN f \ {x} |-> f[y]])

\* The three counters summed over a sequence of tagged entries.
UncachedOf(ts) == SumSeq([i \in DOMAIN ts |-> ts[i].entry.uncached_input_tokens])
CacheReadOf(ts) == SumSeq([i \in DOMAIN ts |-> ts[i].entry.cache_read_input_tokens])
OutputOf(ts) == SumSeq([i \in DOMAIN ts |-> ts[i].entry.output_tokens])

\* The first row of PRICING that carries a canonical name.
RuleOf(name) ==
    PRICING[Least({i \in DOMAIN PRICING : PRICING[i].base_model_name = name})]

\* The cost of the entries of one provider that resolve to a canonical
\* model, in units of 10^-7 dollar.
GroupCost(buckets, provider, name) ==
    LET ts == EntriesOf(buckets, {provider}, name)
    IN  (UncachedOf(ts) + CacheReadOf(ts)) * RuleOf(name).input_multiplier
          + OutputOf(ts) * RuleOf(name).output_multiplier

\* The canonical models of all entries, and the providers of a model.
CanonicalModels(buckets) ==
    {CanonicalModel(TaggedEntries(buckets)[i].entry) :
        i \in DOMAIN TaggedEntries(buckets)}

ProvidersOfModel(buckets, name) ==
    {p \in Providers : EntriesOf(buckets, {p}, name) # <<>>}

\* The value of a canonical model in a grouped result.
GroupedValue(buckets, metric, name) ==
    IF metric = "Tokens"
    THEN LET ts == EntriesOf(buckets, Providers, name)
         IN  Token(UncachedOf(ts) + CacheReadOf(ts) + OutputOf(ts))
    ELSE Money(SumOf([p \in ProvidersOfModel(buckets, name) |->
                         GroupCost(buckets, p, name)]))

NumbersOf(r) == [k \in DOMAIN r.value |-> r.value[k].value]

\* C16: an ungrouped result is the sum of all values of the grouped-by-model
\* result of the same buckets and metric, whatever order the grouped
\* aggregation visits the providers in; and an empty bucket list gives
\* Token(0) for ungrouped tokens, Money(0) for ungrouped cost and an empty
\* Map for a grouped request, not an error.
C16_UngroupedIsSumOfGrouped ==
    /\ (/\ routed.tag = "Ok"
        /\ cli.command.kind = "Sum"
        /\ cli.command.group_by = None)
       => \A order \in Orders(ProvidersOf(unified_usages)) :
             LET grouped ==
                   does_the_thing(
                       [cli EXCEPT !.command.group_by = Some("Model")],
                       unified_usages, order)
             IN  /\ grouped.tag = "Ok"
                 /\ grouped.value.variant = "Map"
                 /\ routed.value
                      = [variant |-> IF cli.command.metric = "Tokens"
                                        THEN "Token" ELSE "Money",
                         value |-> SumOf(NumbersOf(grouped.value))]
    /\ (/\ routed # Pending
        /\ cli.command.kind = "Sum"
        /\ unified_usages = <<>>)
       => routed = Ok(IF cli.command.group_by = Some("Model") THEN Map(<<>>)
                      ELSE IF cli.command.metric = "Tokens" THEN Token(0)
                      ELSE Money(0))

\* An ungrouped cost was computed over entries of two canonical models.
C16_Witness ==
    /\ routed.tag = "Ok"
    /\ cli.command = Sum("Cost", None)
    /\ Cardinality(CanonicalModels(unified_usages)) = 2
    /\ routed.value.value > 0

\* How often an entry occurs among tagged entries.
Occurrences(ts, e) == Cardinality({i \in DOMAIN ts : ts[i].entry = e})

\* The three counters summed over the multiset of the entries of a provider
\* that resolve to a canonical model: every different entry times the number
\* of its occurrences, nothing of their order or their buckets.
CountersOfMultiset(buckets, provider, name) ==
    LET ts == EntriesOf(buckets, {provider}, name)
        es == {ts[i].entry : i \in DOMAIN ts}
    IN  [uncached_input_tokens |->
             SumOf([e \in es |-> Occurrences(ts, e) * e.uncached_input_tokens]),
         cache_read_input_tokens |->
             SumOf([e \in es |-> Occurrences(ts, e) * e.cache_read_input_tokens]),
         output_tokens |->
             SumOf([e \in es |-> Occurrences(ts, e) * e.output_tokens])]

\* C17: the three counters of every collapsed (provider, canonical model)
\* group depend only on the multiset of the entries resolving to that key:
\* every permutation of the entries and every split of them across buckets
\* gives the same uncached_input_tokens, cache_read_input_tokens and
\* output_tokens.
C17_CollapseOrderIndependent ==
    primitives.tag = "Ok"
    => /\ DOMAIN primitives.value = ProvidersOf(unified_usages)
       /\ \A p \in DOMAIN primitives.value :
             /\ DOMAIN primitives.value[p]
                  = {name \in CanonicalModels(unified_usages) :
                        p \in ProvidersOfModel(unified_usages, name)}
             /\ \A name \in DOMAIN primitives.value[p] :
                   LET collapsed == primitives.value[p][name]
                       sums == CountersOfMultiset(unified_usages, p, name)
                   IN  /\ collapsed.uncached_input_tokens
                            = sums.uncached_input_tokens
                       /\ collapsed.cache_read_input_tokens
                            = sums.cache_read_input_tokens
                       /\ collapsed.output_tokens = sums.output_tokens

\* Two buckets of one provider were collapsed whose entries, of different
\* counters, resolve to one canonical model; the last of them is not the
\* entry with the most output tokens.
C17_Witness ==
    /\ primitives.tag = "Ok"
    /\ Len(unified_usages) = 2
    /\ ProvidersOf(unified_usages) = {"anthropic"}
    /\ unified_usages[1].results
          = <<UnifiedUsageEntry(1, 0, 2, Some(claude_haiku_4_5 \o dated), Some("0-200k"))>>
    /\ unified_usages[2].results
          = <<UnifiedUsageEntry(0, 1, 1, Some(claude_haiku_4_5), None)>>
    /\ primitives.value["anthropic"][claude_haiku_4_5].output_tokens = 3

\* The two entries of the example: claude-haiku-4-5 with 1,000,000 uncached
\* input tokens, and with 1,000,000 output tokens.
ExampleUsages ==
    << UnifiedBucketByTime("anthropic",
          << UnifiedUsageEntry(TokensPerMillion, 0, 0,
                               Some(claude_haiku_4_5), None),
             UnifiedUsageEntry(0, 0, TokensPerMillion,
                               Some(claude_haiku_4_5), None) >>) >>

\* C18: the cost of a collapsed group is (uncached_input_tokens +
\* cache_read_input_tokens) / 1,000,000 times the input multiplier plus
\* output_tokens / 1,000,000 times the output multiplier of the rule of the
\* group's canonical model (a grouped cost is the sum of these over the
\* providers of the model), here in units of 10^-7 dollar with multipliers
\* in tenths of a dollar; no tokens cost nothing under every rule; and the
\* two example entries aggregate, cost ungrouped, to 6.00 dollars.
C18_CostOfCollapsedGroup ==
    /\ (/\ routed.tag = "Ok"
        /\ cli.command = Sum("Cost", Some("Model")))
       => \A name \in DOMAIN routed.value.value :
             routed.value.value[name]
               = Money(SumOf([p \in ProvidersWith(primitives.value, name) |->
                    LET collapsed == primitives.value[p][name]
                    IN  (collapsed.uncached_input_tokens
                           + collapsed.cache_read_input_tokens)
                          * RuleOf(name).input_multiplier
                        + collapsed.output_tokens
                          * RuleOf(name).output_multiplier]))
    /\ \A i \in DOMAIN PRICING :
          /\ calculate_cost(0, PRICING[i].input_multiplier) = 0
          /\ calculate_cost(0, PRICING[i].output_multiplier) = 0
    /\ does_the_thing([command |-> Sum("Cost", None), unformatted |-> FALSE],
                      ExampleUsages, <<"anthropic">>)
         = Ok(Money(6 * Dollar))

\* Costs were grouped for a model both providers report, with input and
\* output tokens.
C18_Witness ==
    /\ routed.tag = "Ok"
    /\ cli.command = Sum("Cost", Some("Model"))
    /\ ProvidersOfModel(unified_usages, claude_haiku_4_5) = Providers
    /\ routed.value.value[claude_haiku_4_5].value > 110

---------------------------------------------------------------------------
(* Claims about the cache signature, checked under SignatureSpec.          *)

\* The elements of a sequence.
Range(seq) == {seq[i] : i \in DOMAIN seq}

\* The parameters of a command line that affect the content of the report:
\* the providers selected, the time window, the metric and the grouping (the
\* subcommand), and the formatting flag.
ContentParams(parsed) ==
    [provider |-> IF parsed.provider = None THEN None
                  ELSE Some(Range(parsed.provider[1])),
     since |-> parsed.since,
     command |-> parsed.command,
     unformatted |-> parsed.unformatted]

\* C11: two invocations in one environment whose content-affecting
\* parameters are identical get the same signature, whatever their
\* no_animate and ttl_minutes and whatever the order of their flags.
C11_SignatureOfContentParams ==
    \A i, j \in Invocations :
        (/\ args_signature[i] # None
         /\ args_signature[j] # None
         /\ ContentParams(Cli_parse(env, argv[i]))
              = ContentParams(Cli_parse(env, argv[j])))
        => args_signature[i] = args_signature[j]

---------------------------------------------------------------------------
(* Claims about rendering, checked under RenderSpec.                        *)

\* C19 (as stated): render of a Raw(text) report returns the text verbatim,
\* whatever no_format and with_symbol are, and does not fail.
C19_RawPassedThrough ==
    (report.variant = "Raw" /\ rendered # Pending)
        => rendered = Ok(report.value)

\* The report is a Map whose values are all Money, and it has been rendered.
MoneyMapRendered ==
    /\ report.variant = "Map"
    /\ \A k \in DOMAIN report.value : report.value[k].variant = "Money"
    /\ rendered # Pending

\* The text of the rows `row[k]`, one per key, in the given order, each
\* ended by a newline and nothing before the first.
RECURSIVE RowsText(_, _)
RowsText(row, order) ==
    IF order = <<>> THEN <<>>
    ELSE row[Head(order)] \o <<"\n">> \o RowsText(row, Tail(order))

\* The rendered text is exactly one row per entry, in some order, and no
\* header.
OneRowPerEntry(row) ==
    /\ rendered.tag = "Ok"
    /\ \E order \in Orders(DOMAIN report.value) :
          rendered.value = RowsText(row, order)

\* A text holds the currency symbol.
HasSymbol(text) == \E i \in DOMAIN text : text[i] = "$"

\* The row "<key> (<cost with symbol>),<cost>".
LabelledRow(key, symbol, cost) ==
    key \o <<" ", "(">> \o symbol \o cost \o <<")", ",">> \o cost

\* C20 (as stated): rendering a Map of Money gives one row per entry and no
\* header; the first column of a row is "<key> (<cost with the currency
\* symbol>)" and the second is the same cost without the symbol.
C20_MoneyRowsCarrySymbol ==
    MoneyMapRendered =>
        OneRowPerEntry(
            [k \in DOMAIN report.value |->
                LET cost == IF render_args.no_format
                               THEN f64_to_string(report.value[k].value)
                               ELSE format_2(report.value[k].value)
                IN  LabelledRow(k, <<"$">>, cost)])

\* C20 (amended): rendering a Map of Money gives one row per entry and no
\* header.  With formatting, the first column of a row is "<key> ($<cost to
\* two decimals>)" and the second is the cost to two decimals without the
\* symbol; with no_format, the first column is "<key> (<unrounded cost>)",
\* without a symbol, and the second the unrounded cost.  No second column
\* holds the symbol.
C20_MoneyRows ==
    MoneyMapRendered =>
        /\ OneRowPerEntry(
              [k \in DOMAIN report.value |->
                  IF render_args.no_format
                  THEN LabelledRow(k, <<>>, f64_to_string(report.value[k].value))
                  ELSE LabelledRow(k, <<"$">>, format_2(report.value[k].value))])
        /\ \A a \in Amounts : ~ HasSymbol(f64_to_string(a)) /\ ~ HasSymbol(format_2(a))

\* A Map of two Money entries has been rendered with formatting: the costs
\* are rounded and the labels carry the symbol.
C20_Witness ==
    /\ MoneyMapRendered
    /\ ~ render_args.no_format
    /\ Cardinality(DOMAIN report.value) = MaxRows
    /\ \E k \in DOMAIN report.value :
          format_2(report.value[k].value) # f64_to_string(report.value[k].value)
    /\ HasSymbol(rendered.value)

---------------------------------------------------------------------------
(* Claims about the loading of providers, checked under LoaderSpec.         *)

\* The key of a provider in the command line being loaded.
KeyOf(provider) ==
    IF provider = "anthropic" THEN loader.anthropic_admin_api_key
    ELSE loader.openai_admin_api_key

\* The missing-key error of a provider.
MissingKeyError(provider) ==
    IF provider = "anthropic" THEN AnthropicKeyNotFound ELSE OpenaiKeyNotFound

\* The result is Ok of these providers, each once, paired with its key.
LoadedExactly(providers) ==
    /\ loaded.tag = "Ok"
    /\ Len(loaded.value) = Cardinality(providers)
    /\ {loaded.value[i] : i \in DOMAIN loaded.value}
          = {<<p, KeyOf(p)[1]>> : p \in providers}

\* C21: with providers selected, load_providers returns exactly the selected
\* providers, each once, with their keys, or the missing-key error of a
\* selected provider that has no key if there is one; with none selected it
\* returns exactly the providers that have a key, and never an error.
C21_LoadProviders ==
    loaded # Pending =>
        IF loader.provider # None
        THEN LET selected == {loader.provider[1][i] :
                                 i \in DOMAIN loader.provider[1]}
                 keyless == {p \in selected : KeyOf(p) = None}
             IN  IF keyless = {} THEN LoadedExactly(selected)
                 ELSE /\ loaded.tag = "Err"
                      /\ \E p \in keyless : loaded.value = MissingKeyError(p)
        ELSE LoadedExactly({p \in Providers : KeyOf(p) # None})

\* A provider was selected twice, another once, and one of the two has no
\* key: the load has failed.
C21_Witness ==
    /\ loaded # Pending
    /\ loader.provider # None
    /\ Len(loader.provider[1]) > Cardinality(Providers)
    /\ \A p \in Providers : contains(loader.provider[1], p)
    /\ \E p \in Providers : KeyOf(p) = None
    /\ loaded.tag = "Err"

---------------------------------------------------------------------------
(* Claims about the paginated fetch, checked under FetchSpec.               *)

\* The positions of the events of one kind in the log.
EventsOf(kind) == {i \in DOMAIN fetch_log : fetch_log[i].kind = kind}

\* The buckets of the responses among the first n events, in order.
RECURSIVE BucketsReceived(_)
BucketsReceived(n) ==
    IF n = 0 THEN <<>>
    ELSE BucketsReceived(n - 1)
           \o (IF fetch_log[n].kind = "response" THEN fetch_log[n].data
               ELSE <<>>)

\* C30: the requests go out one after another, each answered before the
\* next; the first carries no page token; every later one carries the
\* next_page of the response before it and follows a wait of the fixed gap;
\* no request follows a response with has_more = false; fetch returns Ok
\* only after such a response, with the buckets of all responses in page
\* order; and when a request fails fetch returns that error, without any
\* bucket.
C30_PagesOneAfterAnother ==
    /\ \A i \in EventsOf("request") :
          \/ i = 1 /\ fetch_log[i].page = None
          \/ /\ i > 3
             /\ fetch_log[i - 1].kind = "wait"
             /\ fetch_log[i - 1].secs = 5
             /\ fetch_log[i - 2].kind = "response"
             /\ fetch_log[i - 2].has_more
             /\ fetch_log[i].page = fetch_log[i - 2].page
    /\ \A i \in EventsOf("response") :
          /\ fetch_log[i - 1].kind = "request"
          /\ ~ fetch_log[i].has_more => i = Len(fetch_log)
    /\ \A i \in EventsOf("wait") :
          i > 1 /\ fetch_log[i - 1].kind = "response"
    /\ fetched # Pending =>
          /\ fetch_log # <<>>
          /\ IF fetch_log[Len(fetch_log)].kind = "response"
             THEN /\ ~ fetch_log[Len(fetch_log)].has_more
                  /\ fetched = Ok(BucketsReceived(Len(fetch_log)))
             ELSE /\ fetch_log[Len(fetch_log)].kind = "request"
                  /\ fetched = Err("ureq")

\* Three pages were fetched, with buckets on the first and the last, and
\* fetch has returned them.
C30_Witness ==
    /\ fetched.tag = "Ok"
    /\ Cardinality(EventsOf("response")) = MaxPages
    /\ Cardinality(EventsOf("wait")) = MaxPages - 1
    /\ fetch_log[2].data # <<>>
    /\ fetch_log[Len(fetch_log)].data # <<>>
    /\ fetch_log[2].page # fetch_log[5].page

====
